---- MODULE Spec2Model ----
(***************************************************************************)
(* Content moderation pipeline: request validation, five detectors, the    *)
(* custom rule engine, the platform policy and the aggregation of flags    *)
(* into one verdict (ModerationEngine.moderate_content), together with     *)
(* update_config.                                                          *)
(*                                                                         *)
(* A string is a sequence of one-character strings, so that length,        *)
(* trimming, lower-casing, substring search and the regular expressions    *)
(* of the detectors are computed on the characters as the code computes    *)
(* them.  A number with a fractional part is an integer count of           *)
(* hundredths, or a fraction [num, den] where the code divides.            *)
(***************************************************************************)
EXTENDS Integers, Sequences, FiniteSets, TLC

VARIABLES config, rules, calls

vars == <<config, rules, calls>>

(***************************************************************************)
(* Characters and strings                                                  *)
(***************************************************************************)
\* the character c repeated n times
Rep(c, n) == SubSeq([i \in 1..n |-> c], 1, n)

UpperLetters == <<"A", "B", "C", "D", "E", "F", "G", "H", "I", "J", "K", "L", "M", "N", "O", "P", "Q", "R", "S", "T", "U", "V", "W", "X", "Y", "Z">>

LowerLetters == <<"a", "b", "c", "d", "e", "f", "g", "h", "i", "j", "k", "l", "m", "n", "o", "p", "q", "r", "s", "t", "u", "v", "w", "x", "y", "z">>

UpperSet == {UpperLetters[i] : i \in 1..26}

LowerSet == {LowerLetters[i] : i \in 1..26}

DigitSet == {"0", "1", "2", "3", "4", "5", "6", "7", "8", "9"}

\* \s of the regular expressions and the characters String.trim removes
SpaceSet == {" ", "\t", "\n", "\r"}

IsUpper(c) == c \in UpperSet

IsLetter(c) == c \in UpperSet \cup LowerSet

IsDigit(c) == c \in DigitSet

IsSpace(c) == c \in SpaceSet

\* \w of the regular expressions
IsWordChar(c) == IsLetter(c) \/ IsDigit(c) \/ c = "_"

LowerOfUpper == [c \in UpperSet |-> LowerLetters[CHOOSE i \in 1..26 : UpperLetters[i] = c]]

ToLowerChar(c) == IF c \in UpperSet THEN LowerOfUpper[c] ELSE c

\* String.prototype.toLowerCase
toLowerCase(s) == SubSeq([i \in 1..Len(s) |-> ToLowerChar(s[i])], 1, Len(s))

\* p occurs in s at offset i (0-based): s[i+1 .. i+Len(p)] = p
OccursAt(s, p, i) == /\ i >= 0
                     /\ i + Len(p) <= Len(s)
                     /\ \A j \in 1..Len(p) : s[i + j] = p[j]

\* String.prototype.includes
includes(s, p) == Len(p) = 0 \/ \E i \in 0..(Len(s) - Len(p)) : s[i + 1] = p[1] /\ OccursAt(s, p, i)

\* String.prototype.trim().length === 0, for a non-empty or empty string
TrimIsEmpty(s) == \A i \in 1..Len(s) : IsSpace(s[i])

\* (s.match(/c/g) || []).length for a one-character pattern c
CountChar(s, c) == Cardinality({i \in 1..Len(s) : s[i] = c})

\* (s.match(/[A-Z]/g) || []).length
CountUpper(s) == Cardinality({i \in 1..Len(s) : IsUpper(s[i])})

\* the elements of a set of positions, in increasing order
RECURSIVE SortedPositions(_)
SortedPositions(S) == IF S = {} THEN <<>>
                      ELSE LET m == CHOOSE x \in S : \A y \in S : x <= y
                           IN  <<m>> \o SortedPositions(S \ {m})

\* Array.prototype.join(', ') on an array of strings
RECURSIVE JoinComma(_)
JoinComma(ss) == IF Len(ss) = 0 THEN <<>>
                 ELSE IF Len(ss) = 1 THEN ss[1]
                 ELSE ss[1] \o <<",", " ">> \o JoinComma(Tail(ss))

\* the maximal runs of characters satisfying a class, as [from, to] pairs
RunStarts(s, InClass(_)) == {i \in 1..Len(s) : InClass(s[i]) /\ (i = 1 \/ ~InClass(s[i - 1]))}

RunEnd(s, InClass(_), i) == CHOOSE e \in i..Len(s) : /\ (e = Len(s) \/ ~InClass(s[e + 1]))
                                                      /\ \A k \in i..e : InClass(s[k])

\* fractions: [num, den] with den > 0, kept in lowest terms
RECURSIVE GCD(_, _)
GCD(a, b) == IF b = 0 THEN a ELSE GCD(b, a % b)

Frac(n, d) == LET g == GCD(IF n < 0 THEN -n ELSE n, d)
              IN  IF g = 0 THEN [num |-> 0, den |-> 1] ELSE [num |-> n \div g, den |-> d \div g]

FracAdd(a, b) == Frac(a.num * b.den + b.num * a.den, a.den * b.den)

FracEq(a, b) == a.num * b.den = b.num * a.den

FracLeq(a, b) == a.num * b.den <= b.num * a.den

FracLess(a, b) == a.num * b.den < b.num * a.den

Hundredths(h) == Frac(h, 100)

(***************************************************************************)
(* Types (types/content_moderation.ts)                                     *)
(***************************************************************************)
ContentType == {"text", "image", "video", "audio"}

SeverityLevel == {"low", "medium", "high", "critical"}

PlatformType == {"twitter", "facebook", "instagram", "linkedin", "tiktok", "youtube"}

\* NOTIFICATION_MESSAGES
CONTENT_SAFE == "Content appears to be safe for posting"

RECOMMEND_REVIEW == "Please review content before posting"

RECOMMEND_EDIT == "Consider editing content to remove flagged elements"

RECOMMEND_REPLACE == "Consider replacing flagged content"

MODERATION_FAILED == "Content moderation failed"

CONTENT_TOO_LONG == "Content is too long for analysis"

CONTENT_EMPTY == "Content cannot be empty"

INVALID_CONTENT_TYPE == "Invalid content type specified"

INVALID_PLATFORM == "Invalid platform specified"

\* validate_request returned without throwing
VALID == "valid"

MaxContentLength == 10000

TwitterCharacterLimit == 280

InstagramHashtagLimit == 30

LinkedinMentionLimit == 5

(***************************************************************************)
(* ModerationEngine.validate_request: the message of the error it throws,  *)
(* or VALID                                                                *)
(***************************************************************************)
\* variant: the length is tested before the emptiness
validate_request_LengthFirst(request) ==
    IF Len(request.content) > MaxContentLength THEN CONTENT_TOO_LONG
    ELSE IF Len(request.content) = 0 \/ TrimIsEmpty(request.content) THEN CONTENT_EMPTY
    ELSE IF request.content_type \notin ContentType THEN INVALID_CONTENT_TYPE
    ELSE IF request.platform \notin PlatformType THEN INVALID_PLATFORM
    ELSE VALID

\* variant: a content of exactly MaxContentLength characters is too long
validate_request_AtLeast(request) ==
    IF Len(request.content) = 0 \/ TrimIsEmpty(request.content) THEN CONTENT_EMPTY
    ELSE IF Len(request.content) >= MaxContentLength THEN CONTENT_TOO_LONG
    ELSE IF request.content_type \notin ContentType THEN INVALID_CONTENT_TYPE
    ELSE IF request.platform \notin PlatformType THEN INVALID_PLATFORM
    ELSE VALID

\* variant: the platform is tested before the content type
validate_request_PlatformFirst(request) ==
    IF Len(request.content) = 0 \/ TrimIsEmpty(request.content) THEN CONTENT_EMPTY
    ELSE IF Len(request.content) > MaxContentLength THEN CONTENT_TOO_LONG
    ELSE IF request.platform \notin PlatformType THEN INVALID_PLATFORM
    ELSE IF request.content_type \notin ContentType THEN INVALID_CONTENT_TYPE
    ELSE VALID

validate_request(request) ==
    IF Len(request.content) = 0 \/ TrimIsEmpty(request.content) THEN CONTENT_EMPTY
    ELSE IF Len(request.content) > MaxContentLength THEN CONTENT_TOO_LONG
    ELSE IF request.content_type \notin ContentType THEN INVALID_CONTENT_TYPE
    ELSE IF request.platform \notin PlatformType THEN INVALID_PLATFORM
    ELSE VALID

\* the catch block of moderate_content rethrows every error under one prefix
WrapError(message) == MODERATION_FAILED \o ": " \o message

(***************************************************************************)
(* ModerationEngine.check_platform_rules                                   *)
(***************************************************************************)
PlatformFlag(type) == [type |-> type, severity |-> "low", confidence |-> Hundredths(100)]

\* variant: a content that just reaches a limit is flagged
check_platform_rules_AtLeast(request) ==
    IF request.platform = "twitter"
    THEN IF Len(request.content) >= TwitterCharacterLimit THEN <<PlatformFlag("character_limit")>> ELSE <<>>
    ELSE IF request.platform = "instagram"
    THEN IF CountChar(request.content, "#") >= InstagramHashtagLimit THEN <<PlatformFlag("hashtag_limit")>> ELSE <<>>
    ELSE IF request.platform = "linkedin"
    THEN IF CountChar(request.content, "@") >= LinkedinMentionLimit THEN <<PlatformFlag("mention_limit")>> ELSE <<>>
    ELSE <<>>

check_platform_rules(request) ==
    IF request.platform = "twitter"
    THEN IF Len(request.content) > TwitterCharacterLimit THEN <<PlatformFlag("character_limit")>> ELSE <<>>
    ELSE IF request.platform = "instagram"
    THEN IF CountChar(request.content, "#") > InstagramHashtagLimit THEN <<PlatformFlag("hashtag_limit")>> ELSE <<>>
    ELSE IF request.platform = "linkedin"
    THEN IF CountChar(request.content, "@") > LinkedinMentionLimit THEN <<PlatformFlag("mention_limit")>> ELSE <<>>
    ELSE <<>>

(***************************************************************************)
(* Aggregation                                                             *)
(***************************************************************************)
severity_scores == [low |-> 1, medium |-> 2, high |-> 3, critical |-> 4]

\* flags.reduce((max, flag) => ..., SeverityLevel.LOW)
RECURSIVE ReduceSeverity(_, _)
ReduceSeverity(flags, max) ==
    IF Len(flags) = 0 THEN max
    ELSE ReduceSeverity(Tail(flags),
                        IF severity_scores[Head(flags).severity] > severity_scores[max]
                        THEN Head(flags).severity ELSE max)

\* variant: the severity of the last flag instead of the greatest
calculate_overall_severity_Last(flags) == IF Len(flags) = 0 THEN "low" ELSE flags[Len(flags)].severity

calculate_overall_severity(flags) == IF Len(flags) = 0 THEN "low" ELSE ReduceSeverity(flags, "low")

RECURSIVE SumConfidence(_)
SumConfidence(flags) == IF Len(flags) = 0 THEN Frac(0, 1)
                        ELSE FracAdd(Head(flags).confidence, SumConfidence(Tail(flags)))

\* variant: the greatest confidence instead of the mean
calculate_confidence_score_Max(flags) ==
    IF Len(flags) = 0 THEN Hundredths(100)
    ELSE LET i == CHOOSE i \in 1..Len(flags) :
                      \A j \in 1..Len(flags) : FracLeq(flags[j].confidence, flags[i].confidence)
         IN  flags[i].confidence

\* variant: the mean is taken without the test for an empty list
calculate_confidence_score_NoGuard(flags) ==
    LET total_confidence == SumConfidence(flags)
    IN  Frac(total_confidence.num, total_confidence.den * Len(flags))

calculate_confidence_score(flags) ==
    IF Len(flags) = 0 THEN Hundredths(100)
    ELSE LET total_confidence == SumConfidence(flags)
         IN  Frac(total_confidence.num, total_confidence.den * Len(flags))

\* variant: only a critical severity blocks posting
determine_safe_to_post_CriticalOnly(flags, overall_severity) ==
    IF overall_severity = "critical" THEN FALSE ELSE TRUE

determine_safe_to_post(flags, overall_severity) ==
    IF overall_severity = "critical" \/ overall_severity = "high" THEN FALSE ELSE TRUE

PlatformTip(platform) ==
    IF platform = "twitter" THEN <<"Consider using Twitter's built-in content warnings for sensitive topics">>
    ELSE IF platform = "instagram" THEN <<"Use Instagram's content filters and moderation tools">>
    ELSE IF platform = "linkedin" THEN <<"Ensure content aligns with LinkedIn's professional community guidelines">>
    ELSE <<>>

\* variant: the medium tier is tested before the high and critical tier
generate_recommendations_MediumFirst(flags, platform) ==
    IF Len(flags) = 0 THEN <<CONTENT_SAFE>>
    ELSE (IF \E i \in 1..Len(flags) : flags[i].severity = "medium" THEN <<RECOMMEND_EDIT>>
          ELSE IF \E i \in 1..Len(flags) : flags[i].severity \in {"critical", "high"} THEN <<RECOMMEND_REPLACE>>
          ELSE <<RECOMMEND_REVIEW>>) \o PlatformTip(platform)

generate_recommendations(flags, platform) ==
    IF Len(flags) = 0 THEN <<CONTENT_SAFE>>
    ELSE (IF \E i \in 1..Len(flags) : flags[i].severity \in {"critical", "high"} THEN <<RECOMMEND_REPLACE>>
          ELSE IF \E i \in 1..Len(flags) : flags[i].severity = "medium" THEN <<RECOMMEND_EDIT>>
          ELSE <<RECOMMEND_REVIEW>>) \o PlatformTip(platform)

(***************************************************************************)
(* RuleEngine (services/rule_engine.ts)                                    *)
(***************************************************************************)
\* pattern.startsWith('/') && pattern.endsWith('/')
IsRegexPattern(pattern) == Len(pattern) >= 1 /\ pattern[1] = "/" /\ pattern[Len(pattern)] = "/"

\* pattern.slice(1, -1)
RegexSource(pattern) == SubSeq(pattern, 2, Len(pattern) - 1)

\* new RegExp(source, 'gi') for the sources the rules of this model use:
\* the digit run \d+, a source of letters, digits and blanks only (which
\* matches itself), and a source with an unterminated group or class, on
\* which the constructor throws a SyntaxError
RegExpKind(source) ==
    CASE source = <<"\\", "d", "+">> -> "digits"
      [] \A i \in 1..Len(source) : IsLetter(source[i]) \/ IsDigit(source[i]) \/ source[i] = " " -> "literal"
      [] source \in {<<"(">>, <<"[">>, <<"(", "f", "r", "e", "e">>} -> "syntax_error"

\* the starts (0-based), in order, of the leftmost non-overlapping
\* occurrences among occ, the search resuming step characters after a start
RECURSIVE LeftmostFrom(_, _, _)
LeftmostFrom(occ, step, from) ==
    IF \A i \in occ : i < from THEN <<>>
    ELSE LET m == CHOOSE i \in occ : i >= from /\ \A k \in occ : k >= from => i <= k
         IN  <<m>> \o LeftmostFrom(occ, step, m + step)

\* content.match(regex) with the flags g and i: the matched texts in order
\* (the empty sequence stands for null)
RegExpMatchAll(source, content) ==
    IF RegExpKind(source) = "digits"
    THEN LET starts == SortedPositions(RunStarts(content, IsDigit))
         IN  [k \in 1..Len(starts) |-> SubSeq(content, starts[k], RunEnd(content, IsDigit, starts[k]))]
    ELSE LET lower_source == toLowerCase(source)
             lower_content == toLowerCase(content)
             occ == {i \in 0..(Len(content) - Len(source)) : OccursAt(lower_content, lower_source, i)}
             starts == LeftmostFrom(occ, IF Len(source) = 0 THEN 1 ELSE Len(source), 0)
         IN  [k \in 1..Len(starts) |-> SubSeq(content, starts[k] + 1, starts[k] + Len(source))]

\* variant: a literal pattern is searched in the content as written
PatternFlags_CaseSensitive(request, rule, pattern) ==
    LET Flag(matched_text) == [type |-> "custom_rule_" \o rule.id,
                               severity |-> rule.severity,
                               confidence |-> Hundredths(80),
                               flagged_text |-> matched_text]
    IN  IF IsRegexPattern(pattern)
        THEN IF RegExpKind(RegexSource(pattern)) = "syntax_error" THEN <<>>
             ELSE LET matches == RegExpMatchAll(RegexSource(pattern), request.content)
                  IN  IF Len(matches) > 0 THEN <<Flag(JoinComma(matches))>> ELSE <<>>
        ELSE IF includes(request.content, pattern) THEN <<Flag(pattern)>> ELSE <<>>

\* one iteration of the pattern loop of check_single_rule: the flags pushed
PatternFlags(request, rule, pattern) ==
    LET lower_content == toLowerCase(request.content)
        Flag(matched_text) == [type |-> "custom_rule_" \o rule.id,
                               severity |-> rule.severity,
                               confidence |-> Hundredths(80),
                               flagged_text |-> matched_text]
    IN  IF IsRegexPattern(pattern)
        THEN IF RegExpKind(RegexSource(pattern)) = "syntax_error" THEN <<>>
             ELSE LET matches == RegExpMatchAll(RegexSource(pattern), request.content)
                  IN  IF Len(matches) > 0 THEN <<Flag(JoinComma(matches))>> ELSE <<>>
        ELSE IF includes(lower_content, toLowerCase(pattern)) THEN <<Flag(pattern)>> ELSE <<>>

\* variant: a pattern that does not compile ends the loop over the patterns
RECURSIVE PatternLoop_Break(_, _, _)
PatternLoop_Break(request, rule, patterns) ==
    IF Len(patterns) = 0 THEN <<>>
    ELSE IF IsRegexPattern(Head(patterns)) /\ RegExpKind(RegexSource(Head(patterns))) = "syntax_error" THEN <<>>
    ELSE PatternFlags(request, rule, Head(patterns)) \o PatternLoop_Break(request, rule, Tail(patterns))

RECURSIVE PatternLoop(_, _, _)
PatternLoop(request, rule, patterns) ==
    IF Len(patterns) = 0 THEN <<>>
    ELSE PatternFlags(request, rule, Head(patterns)) \o PatternLoop(request, rule, Tail(patterns))

check_single_rule(request, rule) == PatternLoop(request, rule, rule.patterns)

\* variant: the flags of a later rule come before those of an earlier one
RECURSIVE check_rules_Reversed(_, _)
check_rules_Reversed(rs, request) ==
    IF Len(rs) = 0 THEN <<>>
    ELSE check_rules_Reversed(Tail(rs), request) \o
         (IF ~Head(rs).enabled THEN <<>>
          ELSE IF request.platform \notin Head(rs).platforms THEN <<>>
          ELSE check_single_rule(request, Head(rs)))

\* variant: a rule is evaluated whether it is enabled or not
RECURSIVE check_rules_IgnoreEnabled(_, _)
check_rules_IgnoreEnabled(rs, request) ==
    IF Len(rs) = 0 THEN <<>>
    ELSE (IF request.platform \notin Head(rs).platforms THEN <<>>
          ELSE check_single_rule(request, Head(rs))) \o check_rules_IgnoreEnabled(Tail(rs), request)

RECURSIVE check_rules(_, _)
check_rules(rs, request) ==
    IF Len(rs) = 0 THEN <<>>
    ELSE (IF ~Head(rs).enabled THEN <<>>
          ELSE IF request.platform \notin Head(rs).platforms THEN <<>>
          ELSE check_single_rule(request, Head(rs))) \o check_rules(Tail(rs), request)

(***************************************************************************)
(* Regular-expression building blocks                                      *)
(***************************************************************************)
\* the character at position k (1-based) is a word character
WordAt(s, k) == k >= 1 /\ k <= Len(s) /\ IsWordChar(s[k])

\* \b between the first k characters of s and the rest
Boundary(s, k) == WordAt(s, k) # WordAt(s, k + 1)

\* one element of a fixed-width shape: D is \d, U is [A-Z], S is \s, any other
\* character stands for itself
ShapeChar(x, c) == IF x = "D" THEN IsDigit(c)
                   ELSE IF x = "U" THEN IsUpper(c)
                   ELSE IF x = "S" THEN IsSpace(c)
                   ELSE x = c

\* the shape matches s at offset i (0-based)
ShapeAt(s, shape, i) == /\ i >= 0
                        /\ i + Len(shape) <= Len(s)
                        /\ \A j \in 1..Len(shape) : ShapeChar(shape[j], s[i + j])

HasShape(s, shape) == \E i \in 0..(Len(s) - Len(shape)) : ShapeAt(s, shape, i)

\* the offsets (0-based) at which p occurs in s
Occurrences(s, p) == {i \in 0..(Len(s) - Len(p)) : OccursAt(s, p, i)}

\* a\s+b, tested on the lower-cased text (flag i)
MatchesWithGap(lc, a, b) ==
    \E i \in Occurrences(lc, a) :
        \E j \in (i + Len(a) + 1)..(Len(lc) - Len(b)) :
            /\ \A k \in (i + Len(a) + 1)..j : IsSpace(lc[k])
            /\ OccursAt(lc, b, j)

\* a[a-z]+b, tested on the lower-cased text (flag i)
MatchesWithWord(lc, a, b) ==
    \E i \in Occurrences(lc, a) :
        \E j \in (i + Len(a) + 1)..(Len(lc) - Len(b)) :
            /\ \A k \in (i + Len(a) + 1)..j : lc[k] \in LowerSet
            /\ OccursAt(lc, b, j)

(***************************************************************************)
(* ProfanityDetector (services/profanity_detector.ts)                      *)
(***************************************************************************)
\* words of the list the bad-words filter starts with (a sample of it)
FilterList == {<<"f", "u", "c", "k">>, <<"b", "a", "s", "t", "a", "r", "d">>, <<"s", "h", "i", "t">>, <<"a", "s", "s">>, <<"b", "i", "t", "c", "h">>, <<"d", "a", "m", "n">>, <<"h", "e", "l", "l">>, <<"p", "i", "s", "s">>}

\* setup_custom_words: filter.removeWords(...)
RemovedWords == {<<"h", "e", "l", "l">>, <<"d", "a", "m", "n">>, <<"a", "s", "s">>, <<"b", "i", "t", "c", "h">>, <<"p", "i", "s", "s">>, <<"s", "h", "i", "t">>,
                 <<"a", "n", "a", "l", "y", "t", "i", "c", "s">>, <<"a", "n", "a", "l", "y", "s", "i", "s">>, <<"a", "s", "s", "i", "s", "t", "a", "n", "t">>, <<"c", "l", "a", "s", "s">>, <<"f", "u", "n", "c", "t", "i", "o", "n">>}

BlocklistLexicon == FilterList \ RemovedWords

\* the words of the text: its maximal runs of word characters
WordRuns(s) == {SubSeq(s, i, RunEnd(s, IsWordChar, i)) : i \in RunStarts(s, IsWordChar)}

\* filter.clean(content) !== content: the filter replaces every word of the
\* text that is, whatever its case, a word of the lexicon
CleanChanges(content) == \E w \in WordRuns(content) : toLowerCase(w) \in BlocklistLexicon

common_profane == <<<<"f", "u", "c", "k">>, <<"s", "h", "i", "t">>, <<"b", "i", "t", "c", "h">>, <<"a", "s", "s">>, <<"d", "a", "m", "n">>, <<"h", "e", "l", "l">>>>

\* variant: the words are collected whether or not the text is profane
ProfanityDetector_check_Always(content) ==
    LET is_profane == CleanChanges(content)
        lower_content == toLowerCase(content)
    IN  [is_profane |-> is_profane,
         profane_words |-> SelectSeq(common_profane, LAMBDA word : includes(lower_content, word))]

ProfanityDetector_check(content) ==
    LET is_profane == CleanChanges(content)
        lower_content == toLowerCase(content)
    IN  [is_profane |-> is_profane,
         profane_words |-> IF is_profane
                           THEN SelectSeq(common_profane, LAMBDA word : includes(lower_content, word))
                           ELSE <<>>]

(***************************************************************************)
(* SentimentAnalyzer (services/sentiment_analyzer.ts)                      *)
(***************************************************************************)
\* the characters the analyzer's tokenizer replaces by blanks (all but the
\* backquote and the double quote, which no content of this model contains)
TokenSeparators == SpaceSet \cup {".", ",", "/", "#", "!", "?", "$", "%", "^", "&", "*", ";", ":", "{", "}", "=", "_", "~", "(", ")"}

IsTokenChar(c) == c \notin TokenSeparators

\* the tokens of the lower-cased text with their multiplicity: one per start
TokenStarts(lc) == RunStarts(lc, IsTokenChar)

TokenAt(lc, i) == SubSeq(lc, i, RunEnd(lc, IsTokenChar, i))

\* setup_custom_analysis: the labels registered for 'en'
CustomLabels == [w \in {<<"i", "n", "n", "o", "v", "a", "t", "i", "v", "e">>, <<"s", "u", "c", "c", "e", "s", "s", "f", "u", "l">>, <<"g", "r", "o", "w", "t", "h">>, <<"o", "p", "p", "o", "r", "t", "u", "n", "i", "t", "y">>, <<"e", "x", "c", "e", "l", "l", "e", "n", "t">>, <<"a", "m", "a", "z", "i", "n", "g">>} |-> 2]
                @@ [w \in {<<"s", "o", "l", "u", "t", "i", "o", "n">>, <<"i", "m", "p", "r", "o", "v", "e">>, <<"g", "r", "e", "a", "t">>, <<"g", "o", "o", "d">>, <<"p", "o", "s", "i", "t", "i", "v", "e">>, <<"b", "e", "n", "e", "f", "i", "t">>, <<"a", "d", "v", "a", "n", "t", "a", "g", "e">>,
                           <<"e", "f", "f", "i", "c", "i", "e", "n", "t">>, <<"e", "f", "f", "e", "c", "t", "i", "v", "e">>, <<"r", "e", "l", "i", "a", "b", "l", "e">>, <<"s", "e", "c", "u", "r", "e">>, <<"f", "a", "s", "t">>, <<"e", "a", "s", "y">>, <<"s", "i", "m", "p", "l", "e">>} |-> 1]

\* words of the analyzer's base valence lexicon (a sample of it)
BaseLabels == [w \in {<<"b", "a", "d">>, <<"h", "a", "t", "e">>, <<"t", "e", "r", "r", "i", "b", "l", "e">>} |-> -3] @@ [w \in {<<"f", "u", "c", "k">>} |-> -4]

Labels == CustomLabels @@ BaseLabels

Valence(token) == IF token \in DOMAIN Labels THEN Labels[token] ELSE 0

RECURSIVE SumValence(_, _)
SumValence(lc, starts) == IF starts = {} THEN 0
                          ELSE LET i == CHOOSE x \in starts : TRUE
                               IN  Valence(TokenAt(lc, i)) + SumValence(lc, starts \ {i})

\* analyzer.analyze(content): score and comparative = score / tokens.length
SentimentAnalyzer_analyze(content) ==
    LET lc == toLowerCase(content)
        starts == TokenStarts(lc)
        score == SumValence(lc, starts)
    IN  [score |-> score,
         tokens |-> Cardinality(starts),
         comparative |-> IF Cardinality(starts) = 0 THEN Frac(0, 1) ELSE Frac(score, Cardinality(starts))]

\* Math.abs
FracAbs(a) == [num |-> IF a.num < 0 THEN -a.num ELSE a.num, den |-> a.den]

(***************************************************************************)
(* ToxicityDetector (services/toxicity_detector.ts)                        *)
(***************************************************************************)
Max(a, b) == IF a >= b THEN a ELSE b

Min(a, b) == IF a <= b THEN a ELSE b

\* toxic_patterns: phrase -> confidence in hundredths
toxic_patterns == <<
    [pattern |-> <<"k", "i", "l", "l", " ", "y", "o", "u", "r", "s", "e", "l", "f">>, confidence |-> 90],
    [pattern |-> <<"y", "o", "u", " ", "s", "h", "o", "u", "l", "d", " ", "d", "i", "e">>, confidence |-> 90],
    [pattern |-> <<"i", " ", "h", "o", "p", "e", " ", "y", "o", "u", " ", "d", "i", "e">>, confidence |-> 90],
    [pattern |-> <<"g", "o", " ", "t", "o", " ", "h", "e", "l", "l">>, confidence |-> 70],
    [pattern |-> <<"f", "u", "c", "k", " ", "y", "o", "u">>, confidence |-> 80],
    [pattern |-> <<"y", "o", "u", " ", "a", "r", "e", " ", "s", "t", "u", "p", "i", "d">>, confidence |-> 60],
    [pattern |-> <<"y", "o", "u", " ", "a", "r", "e", " ", "d", "u", "m", "b">>, confidence |-> 60],
    [pattern |-> <<"y", "o", "u", " ", "a", "r", "e", " ", "a", "n", " ", "i", "d", "i", "o", "t">>, confidence |-> 70],
    [pattern |-> <<"s", "h", "u", "t", " ", "u", "p">>, confidence |-> 50],
    [pattern |-> <<"n", "o", "b", "o", "d", "y", " ", "c", "a", "r", "e", "s">>, confidence |-> 50],
    [pattern |-> <<"y", "o", "u", " ", "a", "r", "e", " ", "w", "o", "r", "t", "h", "l", "e", "s", "s">>, confidence |-> 80],
    [pattern |-> <<"y", "o", "u", " ", "a", "r", "e", " ", "u", "s", "e", "l", "e", "s", "s">>, confidence |-> 70] >>

\* hate_speech_patterns, each compiled with the flag i
HateSpeechMatches(lc) ==
    \/ MatchesWithWord(lc, <<"a", "l", "l", " ">>, <<" ", "a", "r", "e">>)
    \/ MatchesWithWord(lc, <<"e", "v", "e", "r", "y", " ">>, <<" ", "i", "s">>)
    \/ MatchesWithWord(lc, <<"t", "y", "p", "i", "c", "a", "l", " ">>, <<>>)
    \/ includes(lc, <<"y", "o", "u", " ", "p", "e", "o", "p", "l", "e">>)
    \/ includes(lc, <<"t", "h", "o", "s", "e", " ", "p", "e", "o", "p", "l", "e">>)
    \/ includes(lc, <<"g", "o", " ", "b", "a", "c", "k", " ", "t", "o">>)
    \/ includes(lc, <<"y", "o", "u", " ", "d", "o", "n", "'", "t", " ", "b", "e", "l", "o", "n", "g">>)
    \/ includes(lc, <<"y", "o", "u", " ", "a", "r", "e", " ", "n", "o", "t", " ", "w", "e", "l", "c", "o", "m", "e">>)

violence_patterns == {<<"i", " ", "w", "i", "l", "l", " ", "k", "i", "l", "l">>, <<"i", " ", "w", "a", "n", "t", " ", "t", "o", " ", "k", "i", "l", "l">>, <<"i", " ", "s", "h", "o", "u", "l", "d", " ", "k", "i", "l", "l">>, <<"p", "u", "n", "c", "h", " ", "y", "o", "u">>, <<"h", "i", "t", " ", "y", "o", "u">>, <<"b", "e", "a", "t", " ", "y", "o", "u">>,
                      <<"a", "t", "t", "a", "c", "k", " ", "y", "o", "u">>, <<"h", "u", "r", "t", " ", "y", "o", "u">>, <<"d", "e", "s", "t", "r", "o", "y", " ", "y", "o", "u">>, <<"b", "u", "r", "n", " ", "y", "o", "u">>, <<"s", "h", "o", "o", "t", " ", "y", "o", "u">>, <<"s", "t", "a", "b", " ", "y", "o", "u">>}

sexual_content_patterns == {<<"n", "u", "d", "e">>, <<"n", "a", "k", "e", "d">>, <<"p", "o", "r", "n">>, <<"s", "e", "x">>, <<"s", "e", "x", "u", "a", "l">>, <<"i", "n", "t", "i", "m", "a", "t", "e">>, <<"e", "x", "p", "l", "i", "c", "i", "t">>,
                            <<"a", "d", "u", "l", "t", " ", "c", "o", "n", "t", "e", "n", "t">>, <<"m", "a", "t", "u", "r", "e", " ", "c", "o", "n", "t", "e", "n", "t">>}

\* the maximum of the confidences of the entries of a table found in the text
RECURSIVE MaxConfidence(_, _)
MaxConfidence(lc, table) ==
    IF Len(table) = 0 THEN 0
    ELSE Max(IF includes(lc, Head(table).pattern) THEN Head(table).confidence ELSE 0,
             MaxConfidence(lc, Tail(table)))

ToxicityCapsRatio == 70

ToxicityCapsLength == 10

ToxicityExclamations == 3

ToxicityQuestions == 5

ToxicityThreshold == 50

\* variant: is_toxic from a score of 0.5 on
ToxicityDetector_check_AtLeast(content) ==
    LET lower_content == toLowerCase(content)
        phrases == MaxConfidence(lower_content, toxic_patterns)
        shouting == IF CountUpper(content) * 100 > ToxicityCapsRatio * Len(content) /\ Len(content) > ToxicityCapsLength
                    THEN 30 ELSE 0
        punctuation == IF CountChar(content, "!") > ToxicityExclamations \/ CountChar(content, "?") > ToxicityQuestions
                       THEN 20 ELSE 0
        general_toxicity == Max(phrases, Max(shouting, punctuation))
        hate_speech == IF HateSpeechMatches(lower_content) THEN 80 ELSE 0
        violence == IF \E p \in violence_patterns : includes(lower_content, p) THEN 90 ELSE 0
        sexual_content == IF \E p \in sexual_content_patterns : includes(lower_content, p) THEN 70 ELSE 0
        max_toxicity_score == Max(Max(general_toxicity, hate_speech), Max(violence, sexual_content))
    IN  [is_toxic |-> max_toxicity_score >= ToxicityThreshold,
         toxicity_score |-> max_toxicity_score,
         categories |-> [general_toxicity |-> general_toxicity, hate_speech |-> hate_speech,
                         violence |-> violence, sexual_content |-> sexual_content]]

ToxicityDetector_check(content) ==
    LET lower_content == toLowerCase(content)
        phrases == MaxConfidence(lower_content, toxic_patterns)
        shouting == IF CountUpper(content) * 100 > ToxicityCapsRatio * Len(content) /\ Len(content) > ToxicityCapsLength
                    THEN 30 ELSE 0
        punctuation == IF CountChar(content, "!") > ToxicityExclamations \/ CountChar(content, "?") > ToxicityQuestions
                       THEN 20 ELSE 0
        general_toxicity == Max(phrases, Max(shouting, punctuation))
        hate_speech == IF HateSpeechMatches(lower_content) THEN 80 ELSE 0
        violence == IF \E p \in violence_patterns : includes(lower_content, p) THEN 90 ELSE 0
        sexual_content == IF \E p \in sexual_content_patterns : includes(lower_content, p) THEN 70 ELSE 0
        max_toxicity_score == Max(Max(general_toxicity, hate_speech), Max(violence, sexual_content))
    IN  [is_toxic |-> max_toxicity_score > ToxicityThreshold,
         toxicity_score |-> max_toxicity_score,
         categories |-> [general_toxicity |-> general_toxicity, hate_speech |-> hate_speech,
                         violence |-> violence, sexual_content |-> sexual_content]]

(***************************************************************************)
(* SpamDetector (services/spam_detector.ts)                                *)
(***************************************************************************)
\* spam_patterns: phrase -> confidence in hundredths, in insertion order
spam_patterns == <<
    [pattern |-> <<"b", "u", "y", " ", "n", "o", "w">>, confidence |-> 70],
    [pattern |-> <<"l", "i", "m", "i", "t", "e", "d", " ", "t", "i", "m", "e", " ", "o", "f", "f", "e", "r">>, confidence |-> 80],
    [pattern |-> <<"a", "c", "t", " ", "n", "o", "w">>, confidence |-> 70],
    [pattern |-> <<"d", "o", "n", "'", "t", " ", "m", "i", "s", "s", " ", "o", "u", "t">>, confidence |-> 60],
    [pattern |-> <<"c", "l", "i", "c", "k", " ", "h", "e", "r", "e">>, confidence |-> 60],
    [pattern |-> <<"f", "r", "e", "e", " ", "m", "o", "n", "e", "y">>, confidence |-> 90],
    [pattern |-> <<"m", "a", "k", "e", " ", "m", "o", "n", "e", "y", " ", "f", "a", "s", "t">>, confidence |-> 90],
    [pattern |-> <<"w", "o", "r", "k", " ", "f", "r", "o", "m", " ", "h", "o", "m", "e">>, confidence |-> 70],
    [pattern |-> <<"e", "a", "r", "n", " ", "m", "o", "n", "e", "y", " ", "o", "n", "l", "i", "n", "e">>, confidence |-> 80],
    [pattern |-> <<"g", "e", "t", " ", "r", "i", "c", "h", " ", "q", "u", "i", "c", "k">>, confidence |-> 90],
    [pattern |-> <<"l", "o", "s", "e", " ", "w", "e", "i", "g", "h", "t", " ", "f", "a", "s", "t">>, confidence |-> 80],
    [pattern |-> <<"m", "i", "r", "a", "c", "l", "e", " ", "c", "u", "r", "e">>, confidence |-> 90],
    [pattern |-> <<"1", "0", "0", "%", " ", "g", "u", "a", "r", "a", "n", "t", "e", "e", "d">>, confidence |-> 80],
    [pattern |-> <<"n", "o", " ", "r", "i", "s", "k">>, confidence |-> 70],
    [pattern |-> <<"l", "i", "m", "i", "t", "e", "d", " ", "s", "u", "p", "p", "l", "y">>, confidence |-> 70],
    [pattern |-> <<"e", "x", "c", "l", "u", "s", "i", "v", "e", " ", "o", "f", "f", "e", "r">>, confidence |-> 60],
    [pattern |-> <<"s", "e", "c", "r", "e", "t", " ", "m", "e", "t", "h", "o", "d">>, confidence |-> 80],
    [pattern |-> <<"g", "o", "v", "e", "r", "n", "m", "e", "n", "t", " ", "s", "e", "c", "r", "e", "t">>, confidence |-> 90],
    [pattern |-> <<"b", "a", "n", "k", "r", "u", "p", "t", "c", "y">>, confidence |-> 70],
    [pattern |-> <<"d", "e", "b", "t", " ", "r", "e", "l", "i", "e", "f">>, confidence |-> 70],
    [pattern |-> <<"c", "r", "e", "d", "i", "t", " ", "r", "e", "p", "a", "i", "r">>, confidence |-> 70],
    [pattern |-> <<"i", "n", "v", "e", "s", "t", "m", "e", "n", "t", " ", "o", "p", "p", "o", "r", "t", "u", "n", "i", "t", "y">>, confidence |-> 60],
    [pattern |-> <<"h", "o", "t", " ", "s", "i", "n", "g", "l", "e", "s">>, confidence |-> 90],
    [pattern |-> <<"m", "e", "e", "t", " ", "s", "i", "n", "g", "l", "e", "s">>, confidence |-> 80],
    [pattern |-> <<"e", "n", "l", "a", "r", "g", "e", " ", "y", "o", "u", "r">>, confidence |-> 90],
    [pattern |-> <<"v", "i", "a", "g", "r", "a">>, confidence |-> 90],
    [pattern |-> <<"c", "i", "a", "l", "i", "s">>, confidence |-> 90] >>

\* url_patterns: each is a prefix followed by [^\s]+
url_prefixes == <<{<<"h", "t", "t", "p", ":", "/", "/">>, <<"h", "t", "t", "p", "s", ":", "/", "/">>}, {<<"w", "w", "w", ".">>}, {<<"b", "i", "t", ".", "l", "y", "/">>}, {<<"t", "i", "n", "y", "u", "r", "l", ".", "c", "o", "m", "/">>}, {<<"g", "o", "o", ".", "g", "l", "/">>}>>

\* the offsets at which one of the prefixes is followed by a character other
\* than white space, i.e. at which the pattern can match
UrlCandidates(content, prefixes) ==
    UNION {{i \in Occurrences(content, p) : i + Len(p) < Len(content) /\ ~IsSpace(content[i + Len(p) + 1])}
           : p \in prefixes}

\* (content.match(pattern) || []).length: a match runs to the next white
\* space, so a candidate inside an earlier match is not a match of its own
UrlMatches(content, prefixes) ==
    LET cand == UrlCandidates(content, prefixes)
    IN  {i \in cand : ~\E h \in cand : h < i /\ \A k \in (h + 1)..(i + 1) : ~IsSpace(content[k])}

RECURSIVE count_urls_from(_, _)
count_urls_from(content, patterns) ==
    IF Len(patterns) = 0 THEN 0
    ELSE Cardinality(UrlMatches(content, Head(patterns))) + count_urls_from(content, Tail(patterns))

count_urls(content) == count_urls_from(content, url_prefixes)

has_suspicious_patterns(content) ==
    LET lc == toLowerCase(content)
    IN  \/ HasShape(content, <<"D", "D", "D", "D", "-", "D", "D", "D", "D", "-", "D", "D", "D", "D", "-", "D", "D", "D", "D">>)
        \/ HasShape(content, <<"D", "D", "D", "-", "D", "D", "-", "D", "D", "D", "D">>)
        \/ HasShape(content, <<"D", "D", "D", "D", "D", "D", "D", "D", "D", "D">>)
        \/ HasShape(content, <<"U", "U", "U", "U", "U">>)
        \/ HasShape(content, <<"$", "D">>)
        \/ HasShape(content, <<"%", "D">>)
        \/ \E l \in LowerSet : MatchesWithGap(lc, <<"f", "r", "e", "e">>, <<l>>)
        \/ MatchesWithGap(lc, <<"l", "i", "m", "i", "t", "e", "d">>, <<"t", "i", "m", "e">>)
        \/ MatchesWithGap(lc, <<"a", "c", "t">>, <<"n", "o", "w">>)
        \/ MatchesWithGap(lc, <<"c", "l", "i", "c", "k">>, <<"h", "e", "r", "e">>)
        \/ MatchesWithGap(lc, <<"b", "u", "y">>, <<"n", "o", "w">>)

\* content.toLowerCase().split(/\s+/): the words are the maximal runs of
\* characters other than white space (the empty strings a leading or
\* trailing separator yields are shorter than any counted word)
IsNonSpace(c) == ~IsSpace(c)

SplitWordAt(lc, i) == SubSeq(lc, i, RunEnd(lc, IsNonSpace, i))

\* the distinct words longer than 3 characters that occur more than 3 times
RepetitiveWords(content) ==
    LET lc == toLowerCase(content)
        starts == RunStarts(lc, IsNonSpace)
    IN  {w \in {SplitWordAt(lc, i) : i \in starts} :
            Len(w) > 3 /\ Cardinality({i \in starts : SplitWordAt(lc, i) = w}) > 3}

\* a spam score: h hundredths, and above whether the double the code holds
\* lies above the double nearest to h/100.  Of the sums that a comparison
\* can tell apart, only 0.4 + 0.2 is rounded away from its decimal value
\* (to 0.6000000000000001)
ScoreAdd(score, c) == [h |-> score.h + c, above |-> score.h = 40 /\ c = 20]

RECURSIVE AddPhrases(_, _, _)
AddPhrases(score, lc, table) ==
    IF Len(table) = 0 THEN score
    ELSE AddPhrases(IF includes(lc, Head(table).pattern) THEN ScoreAdd(score, Head(table).confidence) ELSE score,
                    lc, Tail(table))

RECURSIVE AddTimes(_, _, _)
AddTimes(score, c, n) == IF n = 0 THEN score ELSE AddTimes(ScoreAdd(score, c), c, n - 1)

SpamThreshold == 60

SpamUrlCount == 2

SpamCapsLength == 20

SpamExclamations == 2

SpamQuestions == 3

\* score > 0.6 on doubles
AboveSpamThreshold(score) == score.h > SpamThreshold \/ (score.h = SpamThreshold /\ score.above)

\* if (condition) spam_score += c
AddIf(score, condition, c) == IF condition THEN ScoreAdd(score, c) ELSE score

\* spam_score = Math.min(spam_score, 1.0) and the object check returns
SpamResult(score) ==
    LET spam_score == IF score.h >= 100 THEN [h |-> 100, above |-> FALSE] ELSE score
    IN  [is_spam |-> AboveSpamThreshold(spam_score),
         spam_score |-> spam_score.h]

\* the additions to spam_score, in the order of check
SpamDetector_check(content) ==
    SpamResult(
        AddIf(
            AddTimes(
                AddIf(
                    AddIf(
                        AddIf(
                            AddPhrases([h |-> 0, above |-> FALSE], toLowerCase(content), spam_patterns),
                            count_urls(content) > SpamUrlCount, 50 * count_urls(content)),
                        CountUpper(content) * 2 > Len(content) /\ Len(content) > SpamCapsLength, 40),
                    CountChar(content, "!") > SpamExclamations \/ CountChar(content, "?") > SpamQuestions, 30),
                20, Cardinality(RepetitiveWords(content))),
            has_suspicious_patterns(content), 60))
(***************************************************************************)
(* PersonalInfoDetector (services/personal_info_detector.ts)               *)
(***************************************************************************)
MaxPos(S) == CHOOSE x \in S : \A y \in S : x >= y

\* content.match(pattern) for a pattern with the flag g, given the matches
\* <<first, last>> the pattern has at the positions of the text: the leftmost
\* one, then the leftmost one that starts after its end, and so on
RECURSIVE MatchTexts(_, _, _)
MatchTexts(s, candidates, from) ==
    LET rest == {m \in candidates : m[1] >= from}
    IN  IF rest = {} THEN <<>>
        ELSE LET m == CHOOSE x \in rest : \A y \in rest : x[1] < y[1] \/ (x[1] = y[1] /\ x[2] >= y[2])
             IN  <<SubSeq(s, m[1], m[2])>> \o MatchTexts(s, rest, m[2] + 1)

\* the matches of the shapes at the offsets of the set, each between two
\* word boundaries
ShapeCandidates(s, shapes, offsets) ==
    {<<x[1] + 1, x[1] + Len(x[2])>> :
        x \in {y \in offsets \X shapes : /\ ShapeAt(s, y[2], y[1])
                                         /\ Boundary(s, y[1])
                                         /\ Boundary(s, y[1] + Len(y[2]))}}

\* the shapes head sep d1 sep d2 ... for every choice of the separators
RECURSIVE ShapesWith(_, _, _)
ShapesWith(head, groups, seps) ==
    IF Len(groups) = 0 THEN {head}
    ELSE UNION {ShapesWith(head \o sep \o Head(groups), Tail(groups), seps) : sep \in seps}

DashOrDot == {<<>>, <<"-">>, <<".">>}

DashOrBlank == {<<>>, <<"-">>, <<" ">>}

\* phone_patterns, as shapes (S is \s):
\*   \b\d{3}[-.]?\d{3}[-.]?\d{4}\b
\*   \b\(\d{3}\)\s?\d{3}[-.]?\d{4}\b
\*   \b\+\d{1,3}\s?\d{3}[-.]?\d{3}[-.]?\d{4}\b
\*   \b\d{10,11}\b
phone_patterns == <<
    ShapesWith(<<"D", "D", "D">>, <<<<"D", "D", "D">>, <<"D", "D", "D", "D">>>>, DashOrDot),
    UNION {ShapesWith(<<"(", "D", "D", "D", ")">> \o blank \o <<"D", "D", "D">>, <<<<"D", "D", "D", "D">>>>, DashOrDot) : blank \in {<<>>, <<"S">>}},
    UNION {ShapesWith(<<"+">> \o code \o blank \o <<"D", "D", "D">>, <<<<"D", "D", "D">>, <<"D", "D", "D", "D">>>>, DashOrDot)
           : code \in {<<"D">>, <<"D", "D">>, <<"D", "D", "D">>}, blank \in {<<>>, <<"S">>}},
    {<<"D", "D", "D", "D", "D", "D", "D", "D", "D", "D">>, <<"D", "D", "D", "D", "D", "D", "D", "D", "D", "D", "D">>} >>

\* ssn_pattern: \b\d{3}-\d{2}-\d{4}\b
SsnShapes == {<<"D", "D", "D", "-", "D", "D", "-", "D", "D", "D", "D">>}

\* credit_card_pattern: \b\d{4}[- ]?\d{4}[- ]?\d{4}[- ]?\d{4}\b
CreditCardShapes == ShapesWith(<<"D", "D", "D", "D">>, <<<<"D", "D", "D", "D">>, <<"D", "D", "D", "D">>, <<"D", "D", "D", "D">>>>, DashOrBlank)

EmailLocalChars == UpperSet \cup LowerSet \cup DigitSet \cup {".", "_", "%", "+", "-"}

EmailDomainChars == UpperSet \cup LowerSet \cup DigitSet \cup {".", "-"}

\* [A-Z|a-z]
EmailTldChars == UpperSet \cup LowerSet \cup {"|"}

\* email_pattern: \b[A-Za-z0-9._%+-]+@[A-Za-z0-9.-]+\.[A-Z|a-z]{2,}\b
\* the ends a match around the "@" at position a can have after the dot at d
EmailEndsAfter(s, a, d) ==
    IF s[d] = "." /\ \A k \in (a + 1)..(d - 1) : s[k] \in EmailDomainChars
    THEN {e \in (d + 2)..Len(s) : Boundary(s, e) /\ \A k \in (d + 1)..e : s[k] \in EmailTldChars}
    ELSE {}

\* the end of the match around the "@" at position a, or 0: the domain takes
\* as much as it can, and then the top-level part does
EmailEnd(s, a) ==
    LET dots == {d \in (a + 2)..(Len(s) - 2) : EmailEndsAfter(s, a, d) # {}}
    IN  IF dots = {} THEN 0 ELSE MaxPos(EmailEndsAfter(s, a, MaxPos(dots)))

EmailCandidates(s) ==
    LET ats == {a \in 1..Len(s) : s[a] = "@" /\ EmailEnd(s, a) > 0}
    IN  {<<x[1], EmailEnd(s, x[2])>> :
            x \in {y \in (1..Len(s)) \X ats : /\ y[1] < y[2]
                                               /\ \A k \in y[1]..(y[2] - 1) : s[k] \in EmailLocalChars
                                               /\ Boundary(s, y[1] - 1)}}

StreetSuffixes == {<<"s", "t", "r", "e", "e", "t">>, <<"s", "t">>, <<"a", "v", "e", "n", "u", "e">>, <<"a", "v", "e">>, <<"r", "o", "a", "d">>, <<"r", "d">>, <<"b", "o", "u", "l", "e", "v", "a", "r", "d">>, <<"b", "l", "v", "d">>,
                   <<"l", "a", "n", "e">>, <<"l", "n">>, <<"d", "r", "i", "v", "e">>, <<"d", "r">>}

IsLetterOrSpace(c) == IsLetter(c) \/ IsSpace(c)

\* address_patterns[0]: \b\d+\s+[A-Za-z\s]+(?:Street|St|...)\b with the flag i:
\* the end of the match that starts with the run of digits at position i, or
\* 0; the letters and blanks take as much as they can
AddressAfterNumber(s, lc, i) ==
    LET j == RunEnd(s, IsDigit, i)
        ends == {x[1] - 1 + Len(x[2]) :
                    x \in {y \in ((j + 3)..Len(s)) \X StreetSuffixes :
                              /\ \A k \in (j + 1)..(y[1] - 1) : IsLetterOrSpace(s[k])
                              /\ OccursAt(lc, y[2], y[1] - 1)
                              /\ Boundary(s, y[1] - 1 + Len(y[2]))}}
    IN  IF WordAt(s, i - 1) \/ j = Len(s) THEN 0
        ELSE IF ~IsSpace(s[j + 1]) \/ ends = {} THEN 0
        ELSE MaxPos(ends)

\* address_patterns[1]: \b[A-Za-z\s]+(?:Street|St|...)\s+\d+\b with the flag i:
\* the matches that end with the run of digits at position i
AddressBeforeNumber(s, lc, i) ==
    LET e == RunEnd(s, IsDigit, i)
    IN  IF WordAt(s, e + 1) THEN {}
        ELSE {<<m, e>> : m \in {n \in 1..(i - 2) :
                 /\ \A k \in n..(i - 1) : IsLetterOrSpace(s[k])
                 /\ Boundary(s, n - 1)
                 /\ \E suffix \in StreetSuffixes : \E p \in (n + 1)..(i - 1 - Len(suffix)) :
                        /\ OccursAt(lc, suffix, p - 1)
                        /\ \A k \in (p + Len(suffix))..(i - 1) : IsSpace(s[k])}}

\* the end of [A-Z][a-z]+ at position i, or 0
CapitalizedEnd(s, i) ==
    IF i <= Len(s) /\ IsUpper(s[i]) /\ i < Len(s) /\ s[i + 1] \in LowerSet
    THEN RunEnd(s, LAMBDA c : c \in LowerSet, i + 1)
    ELSE 0

\* the end of ([A-Z][a-z]+\s+){n-1}[A-Z][a-z]+\b at position i, or 0
RECURSIVE CapitalizedWordsEnd(_, _, _)
CapitalizedWordsEnd(s, i, n) ==
    LET e == CapitalizedEnd(s, i)
    IN  IF e = 0 THEN 0
        ELSE IF n = 1 THEN (IF WordAt(s, e + 1) THEN 0 ELSE e)
        ELSE IF e < Len(s) /\ IsSpace(s[e + 1])
             THEN CapitalizedWordsEnd(s, RunEnd(s, IsSpace, e + 1) + 1, n - 1)
             ELSE 0

\* content.match(name_patterns[n - 2]), an empty sequence standing for null
NameMatches(s, n) ==
    LET starts == {i \in 1..Len(s) : IsUpper(s[i]) /\ ~WordAt(s, i - 1) /\ CapitalizedWordsEnd(s, i, n) > 0}
    IN  MatchTexts(s, {<<i, CapitalizedWordsEnd(s, i, n)>> : i \in starts}, 1)

personal_keywords == <<<<"p", "a", "s", "s", "w", "o", "r", "d">>, <<"p", "i", "n">>, <<"a", "c", "c", "o", "u", "n", "t", " ", "n", "u", "m", "b", "e", "r">>, <<"r", "o", "u", "t", "i", "n", "g", " ", "n", "u", "m", "b", "e", "r">>, <<"d", "a", "t", "e", " ", "o", "f", " ", "b", "i", "r", "t", "h">>, <<"b", "i", "r", "t", "h", "d", "a", "y">>,
                       <<"s", "s", "n">>, <<"s", "o", "c", "i", "a", "l", " ", "s", "e", "c", "u", "r", "i", "t", "y">>, <<"d", "r", "i", "v", "e", "r", " ", "l", "i", "c", "e", "n", "s", "e">>, <<"p", "a", "s", "s", "p", "o", "r", "t">>, <<"i", "d", " ", "n", "u", "m", "b", "e", "r">>>>

\* [...new Set(xs)]: the first occurrence of every element, in order
RECURSIVE Dedupe(_)
Dedupe(xs) == IF Len(xs) = 0 THEN <<>>
              ELSE LET init == Dedupe(SubSeq(xs, 1, Len(xs) - 1))
                       last == xs[Len(xs)]
                   IN  IF \E k \in 1..Len(init) : init[k] = last THEN init ELSE Append(init, last)

\* the matches of the patterns in content, in the order check tries them,
\* and the keywords content includes
PersonalInfoDetector_matches(content) ==
    LET lc == toLowerCase(content)
        digit_offsets == {i \in 0..(Len(content) - 1) : IsDigit(content[i + 1])}
        paren_offsets == {i \in 0..(Len(content) - 1) : content[i + 1] = "("}
        plus_offsets == {i \in 0..(Len(content) - 1) : content[i + 1] = "+"}
        digit_runs == RunStarts(content, IsDigit)
        after_number == [i \in digit_runs |-> AddressAfterNumber(content, lc, i)]
    IN  [emails |-> MatchTexts(content, EmailCandidates(content), 1),
         phones |-> <<MatchTexts(content, ShapeCandidates(content, phone_patterns[1], digit_offsets), 1),
                      MatchTexts(content, ShapeCandidates(content, phone_patterns[2], paren_offsets), 1),
                      MatchTexts(content, ShapeCandidates(content, phone_patterns[3], plus_offsets), 1),
                      MatchTexts(content, ShapeCandidates(content, phone_patterns[4], digit_offsets), 1)>>,
         ssns |-> MatchTexts(content, ShapeCandidates(content, SsnShapes, digit_offsets), 1),
         credit_cards |-> MatchTexts(content, ShapeCandidates(content, CreditCardShapes, digit_offsets), 1),
         addresses |-> <<MatchTexts(content, {<<i, after_number[i]>> : i \in {r \in digit_runs : after_number[r] > 0}}, 1),
                         MatchTexts(content, UNION {AddressBeforeNumber(content, lc, i) : i \in digit_runs}, 1)>>,
         names |-> <<NameMatches(content, 2), NameMatches(content, 3)>>,
         keywords |-> SelectSeq(personal_keywords, LAMBDA keyword : includes(lc, keyword))]

\* detected_info before the name patterns
DetectedBeforeNames(m) ==
    m.emails \o m.phones[1] \o m.phones[2] \o m.phones[3] \o m.phones[4] \o m.ssns
    \o m.credit_cards \o m.addresses[1] \o m.addresses[2]

\* a name pattern counts with two matches, or with one when something was
\* detected before it
CountedNames(names, detected) ==
    IF Len(names) > 1 \/ (Len(names) > 0 /\ Len(detected) > 0) THEN names ELSE <<>>

\* detected_info after the name patterns
WithNames(m, detected) ==
    LET with2 == detected \o CountedNames(m.names[1], detected)
    IN  with2 \o CountedNames(m.names[2], with2)

\* the signals found: the types pushed to info_types, in the order of check
InfoTypes(m, detected, detected_info) ==
    (IF Len(m.emails) > 0 THEN <<"email">> ELSE <<>>)
    \o (IF \E k \in 1..4 : Len(m.phones[k]) > 0 THEN <<"phone">> ELSE <<>>)
    \o (IF Len(m.ssns) > 0 THEN <<"ssn">> ELSE <<>>)
    \o (IF Len(m.credit_cards) > 0 THEN <<"credit_card">> ELSE <<>>)
    \o (IF Len(m.addresses[1]) > 0 \/ Len(m.addresses[2]) > 0 THEN <<"address">> ELSE <<>>)
    \o (IF Len(detected_info) > Len(detected) THEN <<"name">> ELSE <<>>)
    \o [k \in 1..Len(m.keywords) |-> "personal_keyword"]

\* max_confidence at the end of check, in hundredths
max_confidence(m, detected, detected_info) ==
    Max(IF Len(m.emails) > 0 THEN 90 ELSE 0,
    Max(IF \E k \in 1..4 : Len(m.phones[k]) > 0 THEN 80 ELSE 0,
    Max(IF Len(m.ssns) > 0 THEN 95 ELSE 0,
    Max(IF Len(m.credit_cards) > 0 THEN 90 ELSE 0,
    Max(IF Len(m.addresses[1]) > 0 \/ Len(m.addresses[2]) > 0 THEN 70 ELSE 0,
    Max(IF Len(detected_info) > Len(detected) THEN 60 ELSE 0,
        IF Len(m.keywords) > 0 THEN 50 ELSE 0))))))

\* variant: the confidences of the signals add up
max_confidence_Sum(m, detected, detected_info) ==
    Min(100, (IF Len(m.emails) > 0 THEN 90 ELSE 0)
             + (IF \E k \in 1..4 : Len(m.phones[k]) > 0 THEN 80 ELSE 0)
             + (IF Len(m.ssns) > 0 THEN 95 ELSE 0)
             + (IF Len(m.credit_cards) > 0 THEN 90 ELSE 0)
             + (IF Len(m.addresses[1]) > 0 \/ Len(m.addresses[2]) > 0 THEN 70 ELSE 0)
             + (IF Len(detected_info) > Len(detected) THEN 60 ELSE 0)
             + (IF Len(m.keywords) > 0 THEN 50 ELSE 0))

\* variant: the confidences of the signals add up
PersonalInfoResult_Sum(m) ==
    LET detected == DetectedBeforeNames(m)
        detected_info == WithNames(m, detected)
    IN  [has_personal_info |-> Len(detected_info) > 0,
         confidence |-> max_confidence_Sum(m, detected, detected_info),
         detected_info |-> Dedupe(detected_info),
         info_types |-> Dedupe(InfoTypes(m, detected, detected_info))]

\* variant: a keyword found is a detected item
PersonalInfoResult_KeywordDetected(m) ==
    LET detected == m.keywords \o DetectedBeforeNames(m)
        detected_info == WithNames(m, detected)
    IN  [has_personal_info |-> Len(detected_info) > 0,
         confidence |-> max_confidence(m, detected, detected_info),
         detected_info |-> Dedupe(detected_info),
         info_types |-> Dedupe(InfoTypes(m, detected, detected_info))]

\* the object check returns, given the matches m of the patterns
PersonalInfoResult(m) ==
    LET detected == DetectedBeforeNames(m)
        detected_info == WithNames(m, detected)
    IN  [has_personal_info |-> Len(detected_info) > 0,
         confidence |-> max_confidence(m, detected, detected_info),
         detected_info |-> Dedupe(detected_info),
         info_types |-> Dedupe(InfoTypes(m, detected, detected_info))]

PersonalInfoDetector_check(content) == PersonalInfoResult(PersonalInfoDetector_matches(content))
(***************************************************************************)
(* ModerationEngine.moderate_content (services/moderation_engine.ts)       *)
(***************************************************************************)
\* the detectors in the order of the if-blocks of moderate_content
Stages == <<"profanity", "sentiment", "toxicity", "spam", "personal_info">>

RuleStage == Len(Stages) + 1

\* variant: the spam if-block tests the toxicity toggle
Toggle_SpamByToxicity(cfg, k) ==
    CASE k = 1 -> cfg.enable_profanity_detection
      [] k = 2 -> cfg.enable_sentiment_analysis
      [] k = 3 -> cfg.enable_toxicity_detection
      [] k = 4 -> cfg.enable_toxicity_detection
      [] k = 5 -> cfg.enable_personal_info_detection

\* variant: the toxicity if-block also tests the hate speech toggle
Toggle_ToxicityByHateSpeech(cfg, k) ==
    CASE k = 1 -> cfg.enable_profanity_detection
      [] k = 2 -> cfg.enable_sentiment_analysis
      [] k = 3 -> cfg.enable_toxicity_detection /\ cfg.enable_hate_speech_detection
      [] k = 4 -> cfg.enable_spam_detection
      [] k = 5 -> cfg.enable_personal_info_detection

\* this.config.enable_..._detection, read when the if-block is reached
Toggle(cfg, k) ==
    CASE k = 1 -> cfg.enable_profanity_detection
      [] k = 2 -> cfg.enable_sentiment_analysis
      [] k = 3 -> cfg.enable_toxicity_detection
      [] k = 4 -> cfg.enable_spam_detection
      [] k = 5 -> cfg.enable_personal_info_detection

SentimentThreshold == Frac(-3, 10)

\* what the check of the k-th if-block returns for a content
DetectorResult(k, content) ==
    CASE k = 1 -> ProfanityDetector_check(content)
      [] k = 2 -> SentimentAnalyzer_analyze(content)
      [] k = 3 -> ToxicityDetector_check(content)
      [] k = 4 -> SpamDetector_check(content)
      [] k = 5 -> PersonalInfoDetector_check(content)

\* the flags the k-th if-block pushes, given the result of the awaited check
ResultFlags(k, result) ==
    CASE k = 1 -> IF result.is_profane
                  THEN <<[type |-> "profanity", severity |-> "medium", confidence |-> Hundredths(90),
                          flagged_text |-> JoinComma(result.profane_words)]>>
                  ELSE <<>>
      [] k = 2 -> IF FracLess(result.comparative, SentimentThreshold)
                  THEN <<[type |-> "negative_sentiment", severity |-> "low",
                          confidence |-> FracAbs(result.comparative)]>>
                  ELSE <<>>
      [] k = 3 -> IF result.is_toxic
                  THEN <<[type |-> "toxicity", severity |-> "high",
                          confidence |-> Hundredths(result.toxicity_score)]>>
                  ELSE <<>>
      [] k = 4 -> IF result.is_spam
                  THEN <<[type |-> "spam", severity |-> "medium",
                          confidence |-> Hundredths(result.spam_score)]>>
                  ELSE <<>>
      [] k = 5 -> IF result.has_personal_info
                  THEN <<[type |-> "personal_info", severity |-> "high",
                          confidence |-> Hundredths(result.confidence)]>>
                  ELSE <<>>

\* the flags the k-th if-block pushes once the awaited check has returned
DetectorFlags(k, content) == ResultFlags(k, DetectorResult(k, content))

\* the first if-block at or after the k-th whose toggle is set, or RuleStage
RECURSIVE NextEnabled(_, _)
NextEnabled(cfg, k) == IF k >= RuleStage THEN RuleStage
                       ELSE IF Toggle(cfg, k) THEN k
                       ELSE NextEnabled(cfg, k + 1)

AwaitOf(k) == IF k = RuleStage THEN "await_rules" ELSE "await_" \o Stages[k]

StageOf(pc) == CASE pc = "await_profanity" -> 1
                 [] pc = "await_sentiment" -> 2
                 [] pc = "await_toxicity" -> 3
                 [] pc = "await_spam" -> 4
                 [] pc = "await_personal_info" -> 5
                 [] pc = "await_rules" -> 6

\* a caller that has no call in flight
NoRequest == [content |-> <<>>, content_type |-> "", platform |-> "", user_id |-> "", metadata |-> ""]

\* response holds the returned response, if any; error the message of the
\* error thrown, if any; invoked lists the components the call has invoked
\* and rules_read the rule set check_rules has iterated over
IdleCall == [pc |-> "idle", request |-> NoRequest, flags |-> <<>>, pending |-> <<>>, invoked |-> <<>>,
             rules_read |-> <<>>, response |-> <<>>, error |-> ""]

\* moderate_content runs from the k-th if-block to the next await: it skips
\* the detectors whose toggle is off, calls the first one whose toggle is on
\* and suspends on its result; past the last detector it calls
\* rule_engine.check_rules, which reads the rule set before it suspends
RunToAwait(call, cfg, rs, k) ==
    LET n == NextEnabled(cfg, k)
    IN  [call EXCEPT !.pc = AwaitOf(n),
                     !.pending = IF n = RuleStage THEN check_rules(rs, call.request)
                                 ELSE DetectorFlags(n, call.request.content),
                     !.invoked = Append(@, IF n = RuleStage THEN "rule_engine" ELSE Stages[n]),
                     !.rules_read = IF n = RuleStage THEN rs ELSE @]

\* the response moderate_content returns for the accumulated flags
Response(flags, request, elapsed) ==
    LET overall_severity == calculate_overall_severity(flags)
    IN  [is_flagged |-> Len(flags) > 0,
         flags |-> flags,
         overall_severity |-> overall_severity,
         confidence_score |-> calculate_confidence_score(flags),
         safe_to_post |-> determine_safe_to_post(flags, overall_severity),
         recommendations |-> generate_recommendations(flags, request.platform),
         processing_time_ms |-> elapsed]

(***************************************************************************)
(* Inputs                                                                  *)
(***************************************************************************)
MaxElapsedMs == 1

Callers == {"c1"}

SampleContents == {
    <<>>,
    <<" ", "\t", "\n">>,
    Rep(" ", MaxContentLength + 1),
    Rep("a", MaxContentLength + 1),
    Rep("a", MaxContentLength),
    Rep("a", TwitterCharacterLimit + 1),
    Rep("a", TwitterCharacterLimit),
    Rep("#", InstagramHashtagLimit + 1),
    Rep("@", LinkedinMentionLimit + 1),
    <<"h", "e", "l", "l", "o", " ", "w", "o", "r", "l", "d">>,
    <<"f", "u", "c", "k", " ", "y", "o", "u">>,
    <<"b", "a", "d">>,
    <<"t", "h", "i", "s", " ", "i", "s", " ", "s", "o", " ", "b", "a", "d", " ", "o", "k", " ", "o", "k", " ", "o", "k", " ", "o", "k">>,
    <<"B", "U", "Y", " ", "N", "O", "W", "!", "!", "!", " ", "L", "I", "M", "I", "T", "E", "D", " ", "T", "I", "M", "E", " ", "O", "F", "F", "E", "R", "!", "!", "!", " ", "F", "R", "E", "E", " ", "M", "O", "N", "E", "Y", "!", "!", "!">>,
    <<"M", "y", " ", "e", "m", "a", "i", "l", " ", "i", "s", " ", "t", "e", "s", "t", "@", "e", "x", "a", "m", "p", "l", "e", ".", "c", "o", "m", " ", "a", "n", "d", " ", "p", "h", "o", "n", "e", " ", "i", "s", " ", "5", "5", "5", "-", "1", "2", "3", "-", "4", "5", "6", "7">>,
    <<"s", "h", "u", "t", " ", "u", "p">>,
    <<"f", "r", "e", "e", " ", "m", "o", "n", "e", "y", " ", "1", "2", "3">>,
    <<"A", "B", "C", "D", " ", "A", "B", "C", "D", " ", "A", "B", "C", "D", " ", "A", "B", "C", "D", " ", "a", "b">>,
    <<"J", "o", "h", "n", " ", "S", "m", "i", "t", "h", " ", "m", "e", "t", " ", "J", "a", "n", "e", " ", "D", "o", "e">>,
    <<"m", "y", " ", "p", "a", "s", "s", "w", "o", "r", "d">>,
    Rep("#", InstagramHashtagLimit), Rep("@", LinkedinMentionLimit),
    <<"f", "u", "c", "k", " ", "y", "o", "u", " ", "f", "r", "e", "e", " ", "m", "o", "n", "e", "y", " ", "t", "e", "s", "t", "@", "e", "x", "a", "m", "p", "l", "e", ".", "c", "o", "m", " ">> \o Rep("a", TwitterCharacterLimit) }

SampleContentTypes == {"text", "audio", "pdf"}

SamplePlatforms == PlatformType \cup {"myspace"}

\* every content as text on every platform, and with the other content
\* types and with caller fields on two platforms
RequestFields == [content_type : {"text"}, platform : SamplePlatforms, user_id : {""}, metadata : {""}]
                 \cup [content_type : SampleContentTypes, platform : {"twitter", "myspace"},
                       user_id : {""}, metadata : {""}]
                 \cup [content_type : {"text", "pdf"}, platform : {"twitter", "myspace"},
                       user_id : {"u1"}, metadata : {"m1"}]

\* the contents longer than this are submitted only in requests that
\* validate_request rejects
LongContent == 1000

SampleRequests == {r \in {[content |-> c, content_type |-> f.content_type, platform |-> f.platform,
                           user_id |-> f.user_id, metadata |-> f.metadata] : c \in SampleContents, f \in RequestFields} :
                      \/ Len(r.content) <= LongContent
                      \/ r.content_type \notin ContentType
                      \/ r.platform \notin PlatformType}

RuleA == [id |-> "a", patterns |-> <<<<"F", "R", "E", "E">>, <<"/", "\\", "d", "+", "/">>, <<"/", "(", "/">>, <<"m", "o", "n", "e", "y">>>>, severity |-> "critical",
          enabled |-> TRUE, platforms |-> {"twitter", "facebook"}]

RuleB == [id |-> "b", patterns |-> <<<<"/", "h", "e", "l", "l", "o", "/">>, <<"m", "o", "n", "e", "y">>, <<"a", "a", "a">>>>, severity |-> "low",
          enabled |-> TRUE, platforms |-> {"twitter", "instagram", "facebook", "youtube"}]

RuleC == [id |-> "c", patterns |-> <<<<"h", "e", "l", "l", "o">>, <<"a">>>>, severity |-> "high",
          enabled |-> FALSE, platforms |-> PlatformType]

Config(rs, on, threshold) ==
    [rules |-> rs,
     sensitivity_threshold |-> threshold,
     enable_sentiment_analysis |-> 2 \in on,
     enable_profanity_detection |-> 1 \in on,
     enable_toxicity_detection |-> 3 \in on,
     enable_spam_detection |-> 4 \in on,
     enable_hate_speech_detection |-> TRUE,
     enable_violence_detection |-> TRUE,
     enable_sexual_content_detection |-> TRUE,
     enable_personal_info_detection |-> 5 \in on]

SampleConfigs == {Config(<<RuleA, RuleB, RuleC>>, 1..5, 50),
                  Config(<<>>, {}, 50),
                  Config(<<RuleC>>, {}, 90),
                  Config(<<RuleB, RuleA>>, {1, 3, 5}, 50)}

(***************************************************************************)
(* Actions                                                                 *)
(***************************************************************************)
Init == /\ config \in SampleConfigs
        /\ rules = config.rules
        /\ calls = [c \in Callers |-> IdleCall]

\* variant: the detectors are skipped for a request that names its user
Start_TrustedUser(c, request) ==
    /\ calls[c].pc = "idle"
    /\ LET message == validate_request(request)
           call == [IdleCall EXCEPT !.request = request]
       IN  calls' = [calls EXCEPT ![c] = IF message # VALID
                                         THEN [call EXCEPT !.pc = "threw", !.error = WrapError(message)]
                                         ELSE RunToAwait(call, config, rules,
                                                         IF request.user_id # "" THEN RuleStage ELSE 1)]
    /\ UNCHANGED <<config, rules>>

\* variant: validate_request is called after the first detector
Start_ValidateLate(c, request) ==
    /\ calls[c].pc = "idle"
    /\ LET message == validate_request(request)
           call == RunToAwait([IdleCall EXCEPT !.request = request], config, rules, 1)
       IN  calls' = [calls EXCEPT ![c] = IF message # VALID
                                         THEN [call EXCEPT !.pc = "threw", !.pending = <<>>,
                                                           !.error = WrapError(message)]
                                         ELSE call]
    /\ UNCHANGED <<config, rules>>

\* moderate_content(request) up to its first await, or to the error that
\* validate_request throws and the catch block rethrows
Start(c, request) ==
    /\ calls[c].pc = "idle"
    /\ LET message == validate_request(request)
           call == [IdleCall EXCEPT !.request = request]
       IN  calls' = [calls EXCEPT ![c] = IF message # VALID
                                         THEN [call EXCEPT !.pc = "threw", !.error = WrapError(message)]
                                         ELSE RunToAwait(call, config, rules, 1)]
    /\ UNCHANGED <<config, rules>>

\* variant: the flags are collected in one list that all calls share
ResumeDetector_SharedFlags(c) ==
    /\ calls[c].pc \in {AwaitOf(k) : k \in 1..5}
    /\ LET call == [calls[c] EXCEPT !.flags = @ \o calls[c].pending, !.pending = <<>>]
       IN  calls' = [d \in DOMAIN calls |->
                         IF d = c THEN RunToAwait(call, config, rules, StageOf(calls[c].pc) + 1)
                         ELSE IF calls[d].pc \in {AwaitOf(k) : k \in 1..RuleStage}
                              THEN [calls[d] EXCEPT !.flags = @ \o calls[c].pending]
                              ELSE calls[d]]
    /\ UNCHANGED <<config, rules>>

\* the continuation after the await of a detector: push its flag, go on to
\* the next await
ResumeDetector(c) ==
    /\ calls[c].pc \in {AwaitOf(k) : k \in 1..5}
    /\ LET call == [calls[c] EXCEPT !.flags = @ \o calls[c].pending, !.pending = <<>>]
       IN  calls' = [calls EXCEPT ![c] = RunToAwait(call, config, rules, StageOf(calls[c].pc) + 1)]
    /\ UNCHANGED <<config, rules>>

\* variant: check_rules drops the disabled rules from the rule set
ResumeRules_PruneRules(c, elapsed) ==
    /\ calls[c].pc = "await_rules"
    /\ LET flags == calls[c].flags \o calls[c].pending \o check_platform_rules(calls[c].request)
       IN  calls' = [calls EXCEPT ![c] = [@ EXCEPT !.pc = "returned",
                                                   !.flags = flags,
                                                   !.pending = <<>>,
                                                   !.invoked = Append(@, "platform_policy"),
                                                   !.response = <<Response(flags, calls[c].request, elapsed)>>]]
    /\ rules' = SelectSeq(rules, LAMBDA rule : rule.enabled)
    /\ UNCHANGED config

\* the continuation after the await of check_rules: push the rule flags and
\* the platform flags, aggregate, return the response
ResumeRules(c, elapsed) ==
    /\ calls[c].pc = "await_rules"
    /\ LET flags == calls[c].flags \o calls[c].pending \o check_platform_rules(calls[c].request)
       IN  calls' = [calls EXCEPT ![c] = [@ EXCEPT !.pc = "returned",
                                                   !.flags = flags,
                                                   !.pending = <<>>,
                                                   !.invoked = Append(@, "platform_policy"),
                                                   !.response = <<Response(flags, calls[c].request, elapsed)>>]]
    /\ UNCHANGED <<config, rules>>

\* the caller has received the response or the error
Deliver(c) ==
    /\ calls[c].pc \in {"returned", "threw"}
    /\ calls' = [calls EXCEPT ![c] = IdleCall]
    /\ UNCHANGED <<config, rules>>

\* variant: the rule engine keeps the rule set it has
update_config_KeepRules(new_config) ==
    /\ config' = new_config
    /\ rules' = rules
    /\ UNCHANGED calls

\* get_config()
get_config == config

\* update_config(new_config)
update_config(new_config) ==
    /\ config' = new_config
    /\ rules' = new_config.rules
    /\ UNCHANGED calls

Next == \/ \E c \in Callers, request \in SampleRequests : Start(c, request)
        \/ \E c \in Callers : ResumeDetector(c)
        \/ \E c \in Callers, elapsed \in 0..MaxElapsedMs : ResumeRules(c, elapsed)
        \/ \E c \in Callers : Deliver(c)
        \/ \E new_config \in SampleConfigs : update_config(new_config)

Spec == Init /\ [][Next]_vars

(***************************************************************************)
(* Two callers on one engine whose configuration is not replaced           *)
(***************************************************************************)
TwoCallers == {"c1", "c2"}

PairContents == {<<"f", "u", "c", "k", " ", "y", "o", "u">>, <<"f", "r", "e", "e", " ", "m", "o", "n", "e", "y", " ", "1", "2", "3">>, <<"h", "e", "l", "l", "o", " ", "w", "o", "r", "l", "d">>}

PairRequests == {r \in SampleRequests : r.content \in PairContents /\ r.platform = "twitter"}

PairConfigs == {Config(<<RuleA, RuleB, RuleC>>, 1..5, 50), Config(<<RuleB, RuleA>>, {1, 3, 5}, 50)}

InitPair == /\ config \in PairConfigs
            /\ rules = config.rules
            /\ calls = [c \in TwoCallers |-> IdleCall]

NextPair == \/ \E c \in TwoCallers, request \in PairRequests : Start(c, request)
            \/ \E c \in TwoCallers : ResumeDetector(c)
            \/ \E c \in TwoCallers, elapsed \in 0..MaxElapsedMs : ResumeRules(c, elapsed)
            \/ \E c \in TwoCallers : Deliver(c)

SpecPair == InitPair /\ [][NextPair]_vars


(***************************************************************************)
(* One caller on engines constructed with configurations that differ in    *)
(* the fields moderate_content does not read                               *)
(***************************************************************************)
TwinRequests == [content : {<<"f", "u", "c", "k", " ", "y", "o", "u">>, <<"I", " ", "w", "i", "l", "l", " ", "k", "i", "l", "l", " ", "y", "o", "u", " ", "p", "e", "o", "p", "l", "e", ",", " ", "n", "o", " ", "s", "e", "x">>, <<"f", "r", "e", "e", " ", "m", "o", "n", "e", "y", " ", "1", "2", "3">>, <<"h", "e", "l", "l", "o", " ", "w", "o", "r", "l", "d">>},
                 content_type : {"text"}, platform : {"twitter", "linkedin"}, user_id : {""}, metadata : {""}]

\* the configurations that differ from cfg at most in sensitivity_threshold
\* and in the hate speech, violence and sexual content toggles
Variants(cfg) ==
    {[cfg EXCEPT !.sensitivity_threshold = t,
                 !.enable_hate_speech_detection = h,
                 !.enable_violence_detection = v,
                 !.enable_sexual_content_detection = s] : t \in {10, 50, 90}, h \in BOOLEAN, v \in BOOLEAN, s \in BOOLEAN}

TwinConfigs == UNION {Variants(cfg) : cfg \in PairConfigs}

InitTwin == /\ config \in TwinConfigs
            /\ rules = config.rules
            /\ calls = [c \in Callers |-> IdleCall]

NextTwin == \/ \E c \in Callers, request \in TwinRequests : Start(c, request)
            \/ \E c \in Callers : ResumeDetector(c)
            \/ \E c \in Callers, elapsed \in 0..MaxElapsedMs : ResumeRules(c, elapsed)
            \/ \E c \in Callers : Deliver(c)

SpecTwin == InitTwin /\ [][NextTwin]_vars

(***************************************************************************)
(* The detectors called by themselves: detector.check(content)             *)
(***************************************************************************)
\* contents with the signals of the spam detector, of the toxicity detector,
\* of the personal information detector and of the profanity detector
DetectorContents == {
    <<"h", "e", "l", "l", "o", " ", "w", "o", "r", "l", "d">>,
    <<"d", "o", "n", "'", "t", " ", "m", "i", "s", "s", " ", "o", "u", "t">>,
    <<"n", "o", " ", "r", "i", "s", "k">>,
    <<"n", "o", " ", "r", "i", "s", "k", ",", " ", "d", "o", "n", "'", "t", " ", "m", "i", "s", "s", " ", "o", "u", "t">>,
    <<"h", "t", "t", "p", ":", "/", "/", "a", " ", "h", "t", "t", "p", ":", "/", "/", "b">>,
    <<"h", "t", "t", "p", ":", "/", "/", "a", " ", "h", "t", "t", "p", ":", "/", "/", "b", " ", "h", "t", "t", "p", ":", "/", "/", "c">>,
    <<"h", "t", "t", "p", ":", "/", "/", "w", "w", "w", ".", "a", ".", "c", "o", "m", " ", "w", "w", "w", ".", "b", ".", "c", "o", "m">>,
    <<"A", "B", "C", "D", " ", "E", "F", "G", "H", " ", "I", "J", "K", "L", " ", "M", "N", "O", "P", " ", "a", "b">>,
    <<"A", "B", "C", "D", " ", "E", "F", "G", "H", " ", "I", "J", "K", "L", " ", "M", "N", " ", "a", "b">>,
    <<"A", "B", "C", "D", " ", "E", "F", "G", "H", " ", "I", "J", "K", " ", "a", "b", "c", "d", "e", "f", "g", "h">>,
    <<"w", "o", "w", "!", "!">>, <<"w", "o", "w", "!", "!", "!">>, <<"w", "h", "y", "?", "?", "?">>, <<"w", "h", "y", "?", "?", "?", "?">>,
    <<"s", "p", "a", "m", " ", "s", "p", "a", "m", " ", "s", "p", "a", "m">>,
    <<"s", "p", "a", "m", " ", "s", "p", "a", "m", " ", "s", "p", "a", "m", " ", "s", "p", "a", "m">>,
    <<"a", "b", "c", " ", "a", "b", "c", " ", "a", "b", "c", " ", "a", "b", "c">>,
    <<"s", "p", "a", "m", " ", "e", "g", "g", "s", " ", "s", "p", "a", "m", " ", "e", "g", "g", "s", " ", "s", "p", "a", "m", " ", "e", "g", "g", "s", " ", "s", "p", "a", "m", " ", "e", "g", "g", "s">>,
    <<"s", "p", "a", "m", " ", "e", "g", "g", "s", " ", "t", "o", "a", "s", "t", " ", "s", "p", "a", "m", " ", "e", "g", "g", "s", " ", "t", "o", "a", "s", "t", " ", "s", "p", "a", "m", " ", "e", "g", "g", "s", " ", "t", "o", "a", "s", "t", " ", "s", "p", "a", "m", " ", "e", "g", "g", "s", " ", "t", "o", "a", "s", "t">>,
    <<"A", "B", "C", "D", " ", "A", "B", "C", "D", " ", "A", "B", "C", "D", " ", "A", "B", "C", "D", " ", "a", "b">>,
    <<"$", "5">>, <<"$", "5", " ", "a", "n", "d", " ", "%", "5">>,
    <<"w", "o", "w", "!", "!", "!", " ", "s", "p", "a", "m", " ", "s", "p", "a", "m", " ", "s", "p", "a", "m", " ", "s", "p", "a", "m">>,
    <<"w", "o", "w", "!", "!", "!", " ", "$", "5">>,
    <<"B", "U", "Y", " ", "N", "O", "W", "!", "!", "!", " ", "L", "I", "M", "I", "T", "E", "D", " ", "T", "I", "M", "E", " ", "O", "F", "F", "E", "R", "!", "!", "!", " ", "F", "R", "E", "E", " ", "M", "O", "N", "E", "Y", "!", "!", "!">>,
    <<"s", "h", "u", "t", " ", "u", "p">>,
    <<"n", "o", "b", "o", "d", "y", " ", "c", "a", "r", "e", "s", ",", " ", "s", "h", "u", "t", " ", "u", "p">>,
    <<"y", "o", "u", " ", "a", "r", "e", " ", "s", "t", "u", "p", "i", "d">>,
    <<"y", "o", "u", " ", "a", "r", "e", " ", "s", "t", "u", "p", "i", "d", ",", " ", "f", "u", "c", "k", " ", "y", "o", "u">>,
    <<"H", "E", "L", "L", "O", " ", "W", "O", "R", "L", "D", "!">>, <<"H", "E", "L", "L", "O", " ", "W", "O", "R", "L">>,
    <<"w", "h", "a", "t", "?", "?", "?", "?", "?">>, <<"w", "h", "a", "t", "?", "?", "?", "?", "?", "?">>,
    <<"n", "o", "!", "!", "!">>, <<"n", "o", "!", "!", "!", "!">>,
    <<"S", "H", "U", "T", " ", "U", "P", " ", "N", "O", "W", "W", "W", "W", "W", "W", "W", "!", "!", "!", "!">>,
    <<"a", "l", "l", " ", "w", "o", "m", "e", "n", " ", "a", "r", "e", " ", "b", "a", "d">>,
    <<"G", "o", " ", "B", "a", "c", "k", " ", "T", "o">>,
    <<"t", "y", "p", "i", "c", "a", "l", " ", "m", "e", "n">>,
    <<"i", " ", "w", "i", "l", "l", " ", "k", "i", "l", "l", " ", "y", "o", "u">>,
    <<"s", "e", "x">>, <<"n", "a", "k", "e", "d", " ", "s", "e", "x">>,
    <<"I", " ", "w", "i", "l", "l", " ", "k", "i", "l", "l", " ", "y", "o", "u", " ", "p", "e", "o", "p", "l", "e", ",", " ", "n", "o", " ", "s", "e", "x">>,
    <<"M", "y", " ", "e", "m", "a", "i", "l", " ", "i", "s", " ", "t", "e", "s", "t", "@", "e", "x", "a", "m", "p", "l", "e", ".", "c", "o", "m", " ", "a", "n", "d", " ", "p", "h", "o", "n", "e", " ", "i", "s", " ", "5", "5", "5", "-", "1", "2", "3", "-", "4", "5", "6", "7">>,
    <<"c", "a", "l", "l", " ", "5", "5", "5", "1", "2", "3", "4", "5", "6", "7">>,
    <<"a", "@", "b", ".", "c", "o", " ", "a", "@", "b", ".", "c", "o">>,
    <<"m", "a", "i", "l", " ", "x", ".", "y", "@", "m", "a", "i", "l", ".", "e", "x", "a", "m", "p", "l", "e", ".", "o", "r", "g", "|", "z", " ", "n", "o", "w">>,
    <<"s", "s", "n", " ", "1", "2", "3", "-", "4", "5", "-", "6", "7", "8", "9">>,
    <<"c", "a", "r", "d", " ", "1", "2", "3", "4", " ", "5", "6", "7", "8", " ", "9", "0", "1", "2", " ", "3", "4", "5", "6">>,
    <<"1", "2", " ", "M", "a", "i", "n", " ", "S", "t", "r", "e", "e", "t">>,
    <<"M", "a", "i", "n", " ", "S", "t", " ", "1", "2">>,
    <<"a", "t", " ", "7", " ", "O", "a", "k", " ", "R", "o", "a", "d", " ", "a", "n", "d", " ", "E", "l", "m", " ", "A", "v", "e", " ", "9", " ", "t", "o", "d", "a", "y">>,
    <<"J", "o", "h", "n", " ", "S", "m", "i", "t", "h">>,
    <<"J", "o", "h", "n", " ", "S", "m", "i", "t", "h", " ", "m", "e", "t", " ", "J", "a", "n", "e", " ", "D", "o", "e">>,
    <<"J", "o", "h", "n", " ", "S", "m", "i", "t", "h", " ", "p", "a", "s", "s", "w", "o", "r", "d">>,
    <<"J", "o", "h", "n", " ", "S", "m", "i", "t", "h", " ", "t", "e", "s", "t", "@", "e", "x", "a", "m", "p", "l", "e", ".", "c", "o", "m">>,
    <<"J", "o", "h", "n", " ", "A", "d", "a", "m", " ", "S", "m", "i", "t", "h", " ", "a", "n", "d", " ", "J", "a", "n", "e", " ", "E", "v", "e", " ", "D", "o", "e">>,
    <<"m", "y", " ", "p", "a", "s", "s", "w", "o", "r", "d">>,
    <<"m", "y", " ", "p", "a", "s", "s", "w", "o", "r", "d", " ", "a", "n", "d", " ", "p", "i", "n">>,
    <<"t", "e", "l", "+", "1", " ", "5", "5", "5", "-", "1", "2", "3", "-", "4", "5", "6", "7">>,
    <<"c", "a", "l", "l", "(", "5", "5", "5", ")", " ", "1", "2", "3", "-", "4", "5", "6", "7">>,
    <<"(", "5", "5", "5", ")", " ", "1", "2", "3", "-", "4", "5", "6", "7">>,
    <<"f", "u", "c", "k", " ", "y", "o", "u">>,
    <<"F", "u", "c", "k">>,
    <<"F", "U", "C", "K", " ", "t", "h", "i", "s", " ", "s", "h", "i", "t">>,
    <<"y", "o", "u", " ", "b", "a", "s", "t", "a", "r", "d">>,
    <<"w", "h", "a", "t", " ", "t", "h", "e", " ", "h", "e", "l", "l", ",", " ", "d", "a", "m", "n">>,
    <<"t", "h", "e", " ", "c", "l", "a", "s", "s", " ", "a", "s", "s", "i", "s", "t", "a", "n", "t">> }

\* the k-th detector's check is called on a content and has returned; the
\* call record holds the content, the result and the flags the if-block of
\* moderate_content pushes for this result
Check(c, k, content) ==
    /\ calls[c].pc = "idle"
    /\ calls' = [calls EXCEPT ![c] = [IdleCall EXCEPT !.pc = "checked",
                                                      !.request = [NoRequest EXCEPT !.content = content],
                                                      !.invoked = <<Stages[k]>>,
                                                      !.pending = DetectorFlags(k, content),
                                                      !.response = <<DetectorResult(k, content)>>]]
    /\ UNCHANGED <<config, rules>>

\* the caller has received the result
Taken(c) ==
    /\ calls[c].pc = "checked"
    /\ calls' = [calls EXCEPT ![c] = IdleCall]
    /\ UNCHANGED <<config, rules>>

InitDetectors == /\ config = Config(<<>>, 1..5, 50)
                 /\ rules = config.rules
                 /\ calls = [c \in Callers |-> IdleCall]

NextDetectors == \/ \E c \in Callers, k \in 1..5, content \in DetectorContents : Check(c, k, content)
                 \/ \E c \in Callers : Taken(c)

SpecDetectors == InitDetectors /\ [][NextDetectors]_vars

(***************************************************************************)
(* RuleEngine and its management operations (services/rule_engine.ts)      *)
(***************************************************************************)
\* rule objects a caller holds: ref tells the objects apart, two of them
\* have the same id
RuleObjects == {[ref |-> 1] @@ RuleA,
                [ref |-> 2] @@ [id |-> "a", patterns |-> <<<<"m", "o", "n", "e", "y">>>>, severity |-> "low", enabled |-> TRUE,
                                platforms |-> {"twitter", "linkedin"}],
                [ref |-> 3] @@ RuleC}

RuleOf(ref) == CHOOSE rule \in RuleObjects : rule.ref = ref

SampleRuleIds == {"a", "c", "z"}

MaxRules == 3

\* the arrays a caller passes to the constructor and to update_rules
SampleRuleSets == {<<>>, <<RuleOf(1), RuleOf(2)>>, <<RuleOf(3), RuleOf(2), RuleOf(1)>>}

RuleRequests == [content : {<<"f", "r", "e", "e", " ", "m", "o", "n", "e", "y", " ", "1", "2", "3">>}, content_type : {"text"},
                 platform : {"twitter", "linkedin"}, user_id : {""}, metadata : {""}]

\* the last call of a caller on the rule engine: the operation, its
\* argument, the rules before it and what it returned; disabled holds the
\* ids for which disable_rule has returned true with no enable_rule of the
\* id, add_rule or update_rules since
RuleCall(op, arg, before, result, disabled) ==
    [op |-> op, arg |-> arg, before |-> before, result |-> result, disabled |-> disabled]

HasRule(rs, rule_id) == \E i \in 1..Len(rs) : rs[i].id = rule_id

\* this.rules.find(rule => rule.id === rule_id), <<>> standing for undefined
Find(rs, rule_id) ==
    IF HasRule(rs, rule_id)
    THEN <<rs[CHOOSE i \in 1..Len(rs) : rs[i].id = rule_id /\ \A j \in 1..(i - 1) : rs[j].id # rule_id]>>
    ELSE <<>>

\* rule.enabled = value for the object get_rule returns, which the array
\* may hold more than once
SetEnabled(rs, rule_id, value) ==
    IF Find(rs, rule_id) = <<>> THEN rs
    ELSE SubSeq([i \in 1..Len(rs) |-> IF rs[i].ref = Find(rs, rule_id)[1].ref
                                       THEN [rs[i] EXCEPT !.enabled = value] ELSE rs[i]], 1, Len(rs))

get_rule(rule_id) == Find(rules, rule_id)

get_all_rules == rules

get_rules_for_platform(platform) == SelectSeq(rules, LAMBDA rule : platform \in rule.platforms)

get_enabled_rules == SelectSeq(rules, LAMBDA rule : rule.enabled)

update_rules(c, new_rules) ==
    /\ rules' = new_rules
    /\ calls' = [calls EXCEPT ![c] = RuleCall("update_rules", new_rules, rules, <<>>, {})]
    /\ UNCHANGED config

\* the rule is an object that is not in the array, enabled or not, or one
\* of the objects in the array
add_rule(c, rule) ==
    /\ Len(rules) < MaxRules
    /\ \A i \in 1..Len(rules) : rules[i].ref = rule.ref => rules[i] = rule
    /\ rules' = Append(rules, rule)
    /\ calls' = [calls EXCEPT ![c] = RuleCall("add_rule", rule, rules, <<>>, {})]
    /\ UNCHANGED config

\* variant: only the first rule with the id is removed
remove_rule_First(c, rule_id) ==
    /\ rules' = IF HasRule(rules, rule_id)
                THEN LET i == CHOOSE k \in 1..Len(rules) : rules[k] = Find(rules, rule_id)[1]
                     IN  SubSeq(rules, 1, i - 1) \o SubSeq(rules, i + 1, Len(rules))
                ELSE rules
    /\ calls' = [calls EXCEPT ![c] = RuleCall("remove_rule", rule_id, rules, <<Len(rules') < Len(rules)>>,
                                              calls[c].disabled)]
    /\ UNCHANGED config

remove_rule(c, rule_id) ==
    /\ rules' = SelectSeq(rules, LAMBDA rule : rule.id # rule_id)
    /\ calls' = [calls EXCEPT ![c] = RuleCall("remove_rule", rule_id, rules, <<Len(rules') < Len(rules)>>,
                                              calls[c].disabled)]
    /\ UNCHANGED config

enable_rule(c, rule_id) ==
    /\ rules' = SetEnabled(rules, rule_id, TRUE)
    /\ calls' = [calls EXCEPT ![c] = RuleCall("enable_rule", rule_id, rules, <<HasRule(rules, rule_id)>>,
                                              calls[c].disabled \ {rule_id})]
    /\ UNCHANGED config

disable_rule(c, rule_id) ==
    /\ rules' = SetEnabled(rules, rule_id, FALSE)
    /\ calls' = [calls EXCEPT ![c] = RuleCall("disable_rule", rule_id, rules, <<HasRule(rules, rule_id)>>,
                                              IF HasRule(rules, rule_id) THEN calls[c].disabled \cup {rule_id}
                                              ELSE calls[c].disabled)]
    /\ UNCHANGED config

\* rule_engine.check_rules(request), which runs to its return without an await
CallCheckRules(c, request) ==
    /\ calls' = [calls EXCEPT ![c] = RuleCall("check_rules", request, rules, check_rules(rules, request),
                                              calls[c].disabled)]
    /\ UNCHANGED <<config, rules>>

\* new RuleEngine(rules)
InitRules == /\ rules \in SampleRuleSets
             /\ config = Config(rules, {}, 50)
             /\ calls = [c \in Callers |-> RuleCall("constructor", rules, <<>>, <<>>, {})]

NextRules == \/ \E c \in Callers, new_rules \in SampleRuleSets : update_rules(c, new_rules)
             \/ \E c \in Callers, rule \in RuleObjects, enabled \in BOOLEAN :
                    add_rule(c, [rule EXCEPT !.enabled = enabled])
             \/ \E c \in Callers, rule_id \in SampleRuleIds : remove_rule(c, rule_id)
             \/ \E c \in Callers, rule_id \in SampleRuleIds : enable_rule(c, rule_id)
             \/ \E c \in Callers, rule_id \in SampleRuleIds : disable_rule(c, rule_id)
             \/ \E c \in Callers, request \in RuleRequests : CallCheckRules(c, request)

SpecRules == InitRules /\ [][NextRules]_vars

(***************************************************************************)
(* Properties                                                              *)
(***************************************************************************)
Returned(c) == calls[c].pc = "returned"

Threw(c) == calls[c].pc = "threw"

InFlight(c) == calls[c].pc # "idle"

ResponseOf(c) == calls[c].response[1]

\* the content is empty or consists of whitespace only
Blank(content) == \A i \in 1..Len(content) : content[i] \in SpaceSet

Zero == Frac(0, 1)

One == Frac(1, 1)

\* C1 (as the spec states it): every flag of every response has a confidence
\* between 0 and 1, the negative_sentiment flag included
C1_ConfidenceInUnitInterval ==
    \A c \in Callers : Returned(c) =>
        \A i \in 1..Len(ResponseOf(c).flags) :
            /\ FracLeq(Zero, ResponseOf(c).flags[i].confidence)
            /\ FracLeq(ResponseOf(c).flags[i].confidence, One)

\* the greatest severity among the flags, LOW for no flags, by its definition
\* as an upper bound that is attained
IsMaxSeverity(s, flags) ==
    IF Len(flags) = 0 THEN s = "low"
    ELSE /\ \E i \in 1..Len(flags) : flags[i].severity = s
         /\ \A i \in 1..Len(flags) : severity_scores[flags[i].severity] <= severity_scores[s]

\* C2: the overall_severity of every response is the greatest severity of its
\* flags under LOW < MEDIUM < HIGH < CRITICAL, and LOW when it has no flags
C2_OverallSeverityIsMax ==
    \A c \in Callers : Returned(c) =>
        IsMaxSeverity(ResponseOf(c).overall_severity, ResponseOf(c).flags)

\* a response whose flags have three different severities, the greatest of
\* which is neither the first nor the last
C2_Witness ==
    \E c \in Callers :
        /\ Returned(c)
        /\ LET flags == ResponseOf(c).flags
           IN  /\ Len(flags) >= 3
               /\ flags[1].severity = "medium"
               /\ flags[Len(flags)].severity = "low"
               /\ ResponseOf(c).overall_severity = "critical"

Blocking == {"high", "critical"}

\* C3: safe_to_post is false exactly when overall_severity is HIGH or
\* CRITICAL, which is exactly when some flag has severity HIGH or CRITICAL
C3_SafeToPost ==
    \A c \in Callers : Returned(c) =>
        LET r == ResponseOf(c)
        IN  /\ (r.safe_to_post = FALSE) <=> (r.overall_severity \in Blocking)
            /\ (r.safe_to_post = FALSE) <=> (\E i \in 1..Len(r.flags) : r.flags[i].severity \in Blocking)

\* a response that may not be posted because of a HIGH flag, no flag being
\* CRITICAL
C3_Witness ==
    \E c \in Callers :
        /\ Returned(c)
        /\ ResponseOf(c).safe_to_post = FALSE
        /\ ResponseOf(c).overall_severity = "high"
        /\ \E i \in 1..Len(ResponseOf(c).flags) : ResponseOf(c).flags[i].severity = "medium"

ErrorOf(c) == calls[c].error

\* C4: a request whose content is empty or whitespace only is rejected with
\* the EmptyContent error, whatever its other fields and its length
C4_EmptyContent ==
    \A c \in Callers : (InFlight(c) /\ Blank(calls[c].request.content)) =>
        (Threw(c) /\ ErrorOf(c) = WrapError(CONTENT_EMPTY))

\* a whitespace-only content that also violates the three other conditions
\* (too long, unknown content type, unknown platform), rejected as empty
C4_Witness ==
    \E c \in Callers :
        /\ Threw(c)
        /\ ErrorOf(c) = WrapError(CONTENT_EMPTY)
        /\ Len(calls[c].request.content) > MaxContentLength
        /\ calls[c].request.content_type \notin ContentType
        /\ calls[c].request.platform \notin PlatformType
        /\ calls[c].request.user_id # ""

\* C5 (as the spec states it): every request whose content is longer than
\* 10000 characters is rejected with the ContentTooLong error, and no request
\* whose content has 10000 characters or less is
C5_Original ==
    \A c \in Callers : InFlight(c) =>
        /\ Len(calls[c].request.content) > MaxContentLength =>
               (Threw(c) /\ ErrorOf(c) = WrapError(CONTENT_TOO_LONG))
        /\ Len(calls[c].request.content) <= MaxContentLength =>
               ErrorOf(c) # WrapError(CONTENT_TOO_LONG)

\* C5 (amended): every request whose content is longer than 10000 characters
\* and not whitespace only is rejected with the ContentTooLong error, and no
\* request whose content has 10000 characters or less is
C5_ContentTooLong ==
    \A c \in Callers : InFlight(c) =>
        /\ (Len(calls[c].request.content) > MaxContentLength /\ ~Blank(calls[c].request.content)) =>
               (Threw(c) /\ ErrorOf(c) = WrapError(CONTENT_TOO_LONG))
        /\ Len(calls[c].request.content) <= MaxContentLength =>
               ErrorOf(c) # WrapError(CONTENT_TOO_LONG)

\* a content of 10001 characters rejected as too long although its content
\* type and platform are unknown too
C5_Witness ==
    \E c \in Callers :
        /\ Threw(c)
        /\ ErrorOf(c) = WrapError(CONTENT_TOO_LONG)
        /\ Len(calls[c].request.content) = MaxContentLength + 1
        /\ calls[c].request.content_type \notin ContentType
        /\ calls[c].request.platform \notin PlatformType

\* C6: validation reports the first violated condition in the order
\* EmptyContent, ContentTooLong, InvalidContentType, InvalidPlatform, and
\* never rejects a request that violates none of the four
C6_ValidationOrder ==
    \A c \in Callers : InFlight(c) =>
        LET request == calls[c].request
            sized == ~Blank(request.content) /\ Len(request.content) <= MaxContentLength
        IN  /\ Blank(request.content) => (Threw(c) /\ ErrorOf(c) = WrapError(CONTENT_EMPTY))
            /\ (~Blank(request.content) /\ Len(request.content) > MaxContentLength) =>
                   (Threw(c) /\ ErrorOf(c) = WrapError(CONTENT_TOO_LONG))
            /\ (sized /\ request.content_type \notin ContentType) =>
                   (Threw(c) /\ ErrorOf(c) = WrapError(INVALID_CONTENT_TYPE))
            /\ (sized /\ request.content_type \in ContentType /\ request.platform \notin PlatformType) =>
                   (Threw(c) /\ ErrorOf(c) = WrapError(INVALID_PLATFORM))
            /\ (sized /\ request.content_type \in ContentType /\ request.platform \in PlatformType) =>
                   (~Threw(c) /\ ErrorOf(c) = "")

\* a content of exactly 10000 characters with an unknown content type and an
\* unknown platform, rejected for its content type
C6_Witness ==
    \E c \in Callers :
        /\ Threw(c)
        /\ ErrorOf(c) = WrapError(INVALID_CONTENT_TYPE)
        /\ Len(calls[c].request.content) = MaxContentLength
        /\ calls[c].request.platform \notin PlatformType

\* the state of a call when validation has failed: no component invoked, no
\* flag collected, no response
C7_NothingRan ==
    \A c \in Callers : (InFlight(c) /\ validate_request(calls[c].request) # VALID) =>
        /\ Threw(c)
        /\ ErrorOf(c) # ""
        /\ calls[c].invoked = <<>>
        /\ calls[c].flags = <<>>
        /\ calls[c].pending = <<>>
        /\ calls[c].response = <<>>

\* a call that has thrown does nothing more until the caller has the error
C7_NoRetry ==
    \A c \in Callers : Threw(c) => (calls'[c] = calls[c] \/ calls'[c] = IdleCall)

\* C7: when validation fails, moderate_content throws before any detector,
\* the rule engine or the platform policy is invoked, returns no response and
\* no flags, and the call is not retried
C7_FailFast == []C7_NothingRan /\ [][C7_NoRetry]_vars

\* a request rejected for its platform, the last condition tested, while all
\* detectors are enabled and the rule set holds enabled rules
C7_Witness ==
    \E c \in Callers :
        /\ Threw(c)
        /\ ErrorOf(c) = WrapError(INVALID_PLATFORM)
        /\ calls[c].invoked = <<>>
        /\ config.enable_profanity_detection
        /\ Len(rules) = 3

DetectorFlagTypes == <<"profanity", "negative_sentiment", "toxicity", "spam", "personal_info">>

PlatformFlagTypes == {"character_limit", "hashtag_limit", "mention_limit"}

\* the place of a flag type in the fixed order: the five detectors, then
\* the custom rules, then the platform policy
CustomRank == Len(DetectorFlagTypes) + 1

PlatformRank == CustomRank + 1

FlagRank(type) ==
    IF \E k \in 1..Len(DetectorFlagTypes) : DetectorFlagTypes[k] = type
    THEN CHOOSE k \in 1..Len(DetectorFlagTypes) : DetectorFlagTypes[k] = type
    ELSE IF type \in PlatformFlagTypes THEN PlatformRank
    ELSE CustomRank

IsCustomFlag(flag) == FlagRank(flag.type) = CustomRank

IsPlatformFlag(flag) == FlagRank(flag.type) = PlatformRank

\* the (rule, pattern) positions of the rule set rs that flag the request
MatchingPatterns(rs, request) ==
    {p \in UNION {{<<i, j>> : j \in 1..Len(rs[i].patterns)} : i \in 1..Len(rs)} :
        /\ rs[p[1]].enabled
        /\ request.platform \in rs[p[1]].platforms
        /\ PatternFlags(request, rs[p[1]], rs[p[1]].patterns[p[2]]) # <<>>}

\* rule order, and pattern order within a rule
Earlier(p, q) == p[1] < q[1] \/ (p[1] = q[1] /\ p[2] < q[2])

C8_FlagOrder(c) ==
    LET flags == ResponseOf(c).flags
        custom == SelectSeq(flags, IsCustomFlag)
        rs == calls[c].rules_read
        matching == MatchingPatterns(rs, calls[c].request)
    IN  /\ \A i, j \in 1..Len(flags) : i < j =>
               /\ FlagRank(flags[i].type) <= FlagRank(flags[j].type)
               /\ FlagRank(flags[i].type) = FlagRank(flags[j].type) => IsCustomFlag(flags[i])
        /\ Len(custom) = Cardinality(matching)
        /\ \A p \in matching :
               LET k == 1 + Cardinality({q \in matching : Earlier(q, p)})
               IN  custom[k] = PatternFlags(calls[c].request, rs[p[1]], rs[p[1]].patterns[p[2]])[1]

\* C8: the flags of every response are in the order profanity,
\* negative_sentiment, toxicity, spam, personal_info, custom-rule flags in rule
\* order and within a rule in pattern order, platform-policy flags, with at
\* most one flag of each detector type and at most one platform-policy flag
C8_FixedFlagOrder == \A c \in Callers : Returned(c) => C8_FlagOrder(c)

\* a response with a flag of each of the five detectors, flags of two rules,
\* two of them of one rule, and a platform-policy flag
C8_Witness ==
    \E c \in Callers :
        /\ Returned(c)
        /\ LET flags == ResponseOf(c).flags
           IN  /\ Len(flags) = 10
               /\ \A k \in 1..5 : flags[k].type = DetectorFlagTypes[k]
               /\ flags[6].type = "custom_rule_a" /\ flags[7].type = "custom_rule_a"
               /\ flags[8].type = "custom_rule_b" /\ flags[9].type = "custom_rule_b"
               /\ flags[10].type = "character_limit"

\* the five toggles of a configuration, in the order of the detectors
Toggles(cfg) == <<cfg.enable_profanity_detection, cfg.enable_sentiment_analysis,
                  cfg.enable_toxicity_detection, cfg.enable_spam_detection,
                  cfg.enable_personal_info_detection>>

\* the trigger of the k-th detector on a content
Trigger(k, content) ==
    CASE k = 1 -> ProfanityDetector_check(content).is_profane
      [] k = 2 -> LET comparative == SentimentAnalyzer_analyze(content).comparative
                  IN  10 * comparative.num < -3 * comparative.den
      [] k = 3 -> ToxicityDetector_check(content).is_toxic
      [] k = 4 -> SpamDetector_check(content).is_spam
      [] k = 5 -> PersonalInfoDetector_check(content).has_personal_info

Invoked(c, component) == \E i \in 1..Len(calls[c].invoked) : calls[c].invoked[i] = component

HasFlag(c, type) == \E i \in 1..Len(ResponseOf(c).flags) : ResponseOf(c).flags[i].type = type

\* in a response the flag of a detector is present iff the detector was
\* invoked and its trigger holds; the rule engine and the platform policy
\* were invoked and their flags are in the response
C9_Flags ==
    \A c \in Callers : Returned(c) =>
        /\ \A k \in 1..5 : HasFlag(c, DetectorFlagTypes[k]) <=>
                               (Invoked(c, Stages[k]) /\ Trigger(k, calls[c].request.content))
        /\ Invoked(c, "rule_engine")
        /\ Invoked(c, "platform_policy")
        /\ SelectSeq(ResponseOf(c).flags, IsCustomFlag) = check_rules(calls[c].rules_read, calls[c].request)
        /\ SelectSeq(ResponseOf(c).flags, IsPlatformFlag) = check_platform_rules(calls[c].request)

\* the position of a call: 0 before the first if-block, k at the await of
\* the k-th detector, 6 at the await of the rule engine
Position(call) == IF call.pc = "idle" THEN 0 ELSE StageOf(call.pc)

\* a step of a call to its next await invokes the k-th detector iff the call
\* reaches the k-th if-block in this step and the k-th toggle of the current
\* configuration is set
C9_Gate ==
    \A c \in Callers :
        (calls'[c] # calls[c] /\ calls'[c].pc \in {AwaitOf(k) : k \in 1..RuleStage}) =>
            LET from == Position(calls[c])
                to == Position(calls'[c])
                before == IF from = 0 THEN <<>> ELSE calls[c].invoked
            IN  /\ from < to
                /\ \A k \in (from + 1)..5 :
                       /\ k < to => ~Toggles(config)[k]
                       /\ k = to => Toggles(config)[k] /\ calls'[c].invoked = Append(before, Stages[k])
                /\ to = RuleStage => calls'[c].invoked = Append(before, "rule_engine")

\* C9: each detector is gated by its own toggle, its flag is present iff the
\* detector is enabled and its trigger holds, and the rule engine and the
\* platform policy run whatever the toggles
C9_Toggles == []C9_Flags /\ [][C9_Gate]_vars

\* a response, under a configuration with toxicity and personal_info enabled
\* and spam and sentiment disabled, to a content that triggers all four: it
\* has the first two flags and not the other two
C9_Witness ==
    \E c \in Callers :
        /\ Returned(c)
        /\ calls[c].invoked = <<"profanity", "toxicity", "personal_info", "rule_engine", "platform_policy">>
        /\ \A k \in 1..5 : Trigger(k, calls[c].request.content)
        /\ HasFlag(c, "toxicity") /\ HasFlag(c, "personal_info")
        /\ ~HasFlag(c, "spam") /\ ~HasFlag(c, "negative_sentiment")

\* the call ran with every detector toggle off and read a rule set without
\* an enabled rule, and no detector would flag its content
AllDisabledBenign(c) ==
    /\ Returned(c)
    /\ \A k \in 1..5 : ~Invoked(c, Stages[k])
    /\ \A i \in 1..Len(calls[c].rules_read) : ~calls[c].rules_read[i].enabled
    /\ \A k \in 1..5 : ~Trigger(k, calls[c].request.content)

\* the response to content that raises no finding
IsSafeResponse(r) ==
    /\ r.is_flagged = FALSE
    /\ r.flags = <<>>
    /\ r.overall_severity = "low"
    /\ FracEq(r.confidence_score, One)
    /\ r.recommendations = <<CONTENT_SAFE>>

\* the content is within the structural limit of the request's platform
WithinPlatformLimits(request) ==
    /\ request.platform = "twitter" => Len(request.content) <= TwitterCharacterLimit
    /\ request.platform = "instagram" => CountChar(request.content, "#") <= InstagramHashtagLimit
    /\ request.platform = "linkedin" => CountChar(request.content, "@") <= LinkedinMentionLimit

\* C10 (as the spec states it): with all detectors and all rules disabled,
\* benign content gets is_flagged = false, no flags, LOW, confidence_score 1
\* and the single safe message as recommendations
C10_Original ==
    \A c \in Callers : AllDisabledBenign(c) => IsSafeResponse(ResponseOf(c))

\* C10 (amended): with all detectors and all rules disabled, benign content
\* that is within the limit of its platform gets is_flagged = false, no
\* flags, LOW, confidence_score 1 and the single safe message
C10_AllDisabledBenign ==
    \A c \in Callers : (AllDisabledBenign(c) /\ WithinPlatformLimits(calls[c].request)) =>
        IsSafeResponse(ResponseOf(c))

\* the safe response to a content that a pattern of a disabled rule of the
\* rule set matches, on a platform that has a structural limit
C10_Witness ==
    \E c \in Callers :
        /\ AllDisabledBenign(c)
        /\ calls[c].rules_read = <<RuleC>>
        /\ calls[c].request.platform = "twitter"
        /\ includes(calls[c].request.content, RuleC.patterns[1])
        /\ IsSafeResponse(ResponseOf(c))

CustomFlags(c) == SelectSeq(ResponseOf(c).flags, IsCustomFlag)

\* the rule is disabled, or its platforms do not contain the platform
OutOfPlay(rule, platform) == ~rule.enabled \/ platform \notin rule.platforms

\* some pattern of the rule is found in the content
SomePatternMatches(rule, request) ==
    \E j \in 1..Len(rule.patterns) : PatternFlags(request, rule, rule.patterns[j]) # <<>>

\* C11: a disabled rule and a rule whose platforms do not contain the
\* request's platform contribute no flag: the response has no flag of such a
\* rule, and its custom-rule flags are those of the rule set without the
\* disabled and the out-of-scope rules
C11_RuleScope ==
    \A c \in Callers : Returned(c) =>
        LET rs == calls[c].rules_read
            request == calls[c].request
            InPlay(rule) == ~OutOfPlay(rule, request.platform)
        IN  /\ \A i \in 1..Len(rs) : OutOfPlay(rs[i], request.platform) =>
                   ~HasFlag(c, "custom_rule_" \o rs[i].id)
            /\ CustomFlags(c) = check_rules(SelectSeq(rs, InPlay), request)

\* a response to a content that patterns of three rules match: one rule is
\* disabled but lists the platform, one is enabled but does not list it (it
\* lists others), and only the third, enabled and in scope, has flags
C11_Witness ==
    \E c \in Callers :
        /\ Returned(c)
        /\ calls[c].rules_read = <<RuleA, RuleB, RuleC>>
        /\ calls[c].request.platform = "instagram"
        /\ \A i \in 1..3 : SomePatternMatches(calls[c].rules_read[i], calls[c].request)
        /\ HasFlag(c, "custom_rule_b")
        /\ ~HasFlag(c, "custom_rule_a") /\ ~HasFlag(c, "custom_rule_c")

\* the text p is found in the text s when letter case is ignored
FoundIgnoringCase(s, p) ==
    \E i \in 0..(Len(s) - Len(p)) : \A j \in 1..Len(p) : ToLowerChar(s[i + j]) = ToLowerChar(p[j])

\* a pattern matches a content: a pattern between slashes as a regular
\* expression that ignores case (a run of digits for \d+, the source itself
\* for a source without special characters, nothing for a source that does
\* not compile), any other pattern as a substring once both are lower-cased
PatternMatches(pattern, content) ==
    IF pattern[1] = "/" /\ pattern[Len(pattern)] = "/"
    THEN LET source == SubSeq(pattern, 2, Len(pattern) - 1)
         IN  CASE RegExpKind(source) = "digits" -> \E i \in 1..Len(content) : content[i] \in DigitSet
               [] RegExpKind(source) = "literal" -> FoundIgnoringCase(content, source)
               [] RegExpKind(source) = "syntax_error" -> FALSE
    ELSE FoundIgnoringCase(content, pattern)

\* the (rule, pattern) positions of the rules in play whose pattern matches
MatchingInPlay(rs, request) ==
    {p \in UNION {{<<i, j>> : j \in 1..Len(rs[i].patterns)} : i \in 1..Len(rs)} :
        /\ ~OutOfPlay(rs[p[1]], request.platform)
        /\ PatternMatches(rs[p[1]].patterns[p[2]], request.content)}

\* C12: an enabled rule that applies to the platform yields exactly one flag
\* per matching pattern, of type custom_rule_<id>, with the rule's severity
\* and confidence 0.8, where a literal pattern matches iff the lower-cased
\* content contains the lower-cased pattern and a /.../ pattern iff its
\* case-insensitive regular expression matches the content
C12_OneFlagPerMatchingPattern ==
    \A c \in Callers : Returned(c) =>
        LET rs == calls[c].rules_read
            matching == MatchingInPlay(rs, calls[c].request)
            custom == CustomFlags(c)
        IN  /\ Len(custom) = Cardinality(matching)
            /\ \A p \in matching :
                   LET k == 1 + Cardinality({q \in matching : Earlier(q, p)})
                   IN  /\ custom[k].type = "custom_rule_" \o rs[p[1]].id
                       /\ custom[k].severity = rs[p[1]].severity
                       /\ FracEq(custom[k].confidence, Frac(8, 10))

\* a response with three flags of one rule (an upper-case literal found in
\* lower-case content, a regular expression, a second literal) and one flag
\* of a rule of which two patterns do not match
C12_Witness ==
    \E c \in Callers :
        /\ Returned(c)
        /\ calls[c].rules_read = <<RuleA, RuleB, RuleC>>
        /\ LET custom == CustomFlags(c)
           IN  /\ Len(custom) = 4
               /\ custom[1].flagged_text = RuleA.patterns[1] /\ ~includes(calls[c].request.content, RuleA.patterns[1])
               /\ custom[2].type = "custom_rule_a" /\ custom[3].type = "custom_rule_a"
               /\ custom[4].type = "custom_rule_b" /\ custom[4].severity = "low"

\* a pattern between slashes whose source does not compile
Malformed(pattern) == IsRegexPattern(pattern) /\ RegExpKind(RegexSource(pattern)) = "syntax_error"

WellFormed(pattern) == ~Malformed(pattern)

\* the rule set without the malformed patterns of its rules
WithoutMalformed(rs) == [i \in 1..Len(rs) |-> [rs[i] EXCEPT !.patterns = SelectSeq(@, WellFormed)]]

\* C13: a rule pattern that does not compile is skipped: a call throws only
\* for a request that fails validation, whatever the rule set, and its
\* response has the flags of the rule set without the malformed patterns
C13_MalformedSkipped ==
    \A c \in Callers :
        /\ Threw(c) => validate_request(calls[c].request) # VALID
        /\ Returned(c) => CustomFlags(c) = check_rules(WithoutMalformed(calls[c].rules_read), calls[c].request)

\* a response under a rule set whose first rule has a malformed third
\* pattern: it has the flag of the fourth pattern of that rule and a flag of
\* the rule after it
C13_Witness ==
    \E c \in Callers :
        /\ Returned(c)
        /\ calls[c].rules_read = <<RuleA, RuleB, RuleC>>
        /\ Malformed(RuleA.patterns[3])
        /\ \E k \in 1..Len(ResponseOf(c).flags) :
               /\ ResponseOf(c).flags[k].type = "custom_rule_a"
               /\ ResponseOf(c).flags[k].flagged_text = RuleA.patterns[4]
               /\ ResponseOf(c).flags[k + 1].type = "custom_rule_b"

PlatformFlags(c) == SelectSeq(ResponseOf(c).flags, IsPlatformFlag)

\* the type of the platform-policy flag a request gets, "" for none
LimitExceeded(request) ==
    CASE request.platform = "twitter" /\ Len(request.content) > 280 -> "character_limit"
      [] request.platform = "instagram" /\ Cardinality({i \in 1..Len(request.content) : request.content[i] = "#"}) > 30
             -> "hashtag_limit"
      [] request.platform = "linkedin" /\ Cardinality({i \in 1..Len(request.content) : request.content[i] = "@"}) > 5
             -> "mention_limit"
      [] OTHER -> ""

\* C14: the platform policy yields one LOW flag of confidence 1.0,
\* character_limit iff twitter and more than 280 characters, hashtag_limit iff
\* instagram and more than 30 '#', mention_limit iff linkedin and more than
\* 5 '@', and no flag in any other case
C14_PlatformPolicy ==
    \A c \in Callers : Returned(c) =>
        LET type == LimitExceeded(calls[c].request)
        IN  IF type = "" THEN PlatformFlags(c) = <<>>
            ELSE /\ Len(PlatformFlags(c)) = 1
                 /\ PlatformFlags(c)[1].type = type
                 /\ PlatformFlags(c)[1].severity = "low"
                 /\ FracEq(PlatformFlags(c)[1].confidence, One)

\* a response with the character_limit flag as its only flag
C14_Witness ==
    \E c \in Callers :
        /\ Returned(c)
        /\ calls[c].request.platform = "twitter"
        /\ Len(calls[c].request.content) = 281
        /\ Len(ResponseOf(c).flags) = 1
        /\ ResponseOf(c).flags[1].type = "character_limit"
        /\ ResponseOf(c).safe_to_post = TRUE

\* the sum of the confidences of the first n flags
RECURSIVE TotalConfidence(_, _)
TotalConfidence(flags, n) ==
    IF n = 0 THEN Zero ELSE FracAdd(TotalConfidence(flags, n - 1), flags[n].confidence)

\* C15: the confidence_score of every response is the arithmetic mean of the
\* confidences of its flags, and 1.0 when it has no flags
C15_MeanConfidence ==
    \A c \in Callers : Returned(c) =>
        LET flags == ResponseOf(c).flags
            score == ResponseOf(c).confidence_score
        IN  IF Len(flags) = 0 THEN FracEq(score, One)
            ELSE FracEq(Frac(score.num * Len(flags), score.den), TotalConfidence(flags, Len(flags)))

\* a response with at least three flags of three different confidences
\* whose confidence_score is none of them
C15_Witness ==
    \E c \in Callers :
        /\ Returned(c)
        /\ LET flags == ResponseOf(c).flags
           IN  /\ Len(flags) >= 3
               /\ Cardinality({flags[i].confidence : i \in 1..Len(flags)}) >= 3
               /\ \A i \in 1..Len(flags) : ~FracEq(flags[i].confidence, ResponseOf(c).confidence_score)

\* the severity-tier message for a list of flags
TierMessage(flags) ==
    IF \E i \in 1..Len(flags) : flags[i].severity \in {"high", "critical"} THEN RECOMMEND_REPLACE
    ELSE IF \E i \in 1..Len(flags) : flags[i].severity = "medium" THEN RECOMMEND_EDIT
    ELSE IF Len(flags) > 0 THEN RECOMMEND_REVIEW
    ELSE CONTENT_SAFE

PlatformsWithTip == {"twitter", "instagram", "linkedin"}

\* C16 (as the spec states it): recommendations is the severity-tier message
\* followed by exactly one platform tip on twitter, instagram and linkedin,
\* and by nothing on the other platforms
C16_Original ==
    \A c \in Callers : Returned(c) =>
        LET r == ResponseOf(c)
            platform == calls[c].request.platform
        IN  /\ r.recommendations[1] = TierMessage(r.flags)
            /\ IF platform \in PlatformsWithTip
               THEN Len(r.recommendations) = 2 /\ <<r.recommendations[2]>> = PlatformTip(platform)
               ELSE Len(r.recommendations) = 1

\* C16 (amended): recommendations is the severity-tier message, followed by
\* exactly one platform tip when the response has a flag and the platform is
\* twitter, instagram or linkedin, and by nothing otherwise; without flags
\* it is the safe message alone on every platform
C16_Recommendations ==
    \A c \in Callers : Returned(c) =>
        LET r == ResponseOf(c)
            platform == calls[c].request.platform
        IN  /\ r.recommendations[1] = TierMessage(r.flags)
            /\ IF platform \in PlatformsWithTip /\ Len(r.flags) > 0
               THEN /\ Len(r.recommendations) = 2
                    /\ <<r.recommendations[2]>> = PlatformTip(platform)
                    /\ PlatformTip(platform) # <<>>
               ELSE Len(r.recommendations) = 1

\* a response whose flags are MEDIUM and HIGH, on linkedin: the replace
\* message and the tip
C16_Witness ==
    \E c \in Callers :
        /\ Returned(c)
        /\ calls[c].request.platform = "linkedin"
        /\ \E i, j \in 1..Len(ResponseOf(c).flags) :
               ResponseOf(c).flags[i].severity = "medium" /\ ResponseOf(c).flags[j].severity = "high"
        /\ Len(ResponseOf(c).recommendations) = 2
        /\ ResponseOf(c).recommendations[1] = RECOMMEND_REPLACE

\* the detectors the call invoked and the rule set it read are those of
\* the configuration cfg
RanUnder(c, cfg) ==
    /\ \A k \in 1..5 : Invoked(c, Stages[k]) <=> Toggles(cfg)[k]
    /\ calls[c].rules_read = cfg.rules

\* C17 (as the spec states it): every call evaluates all its detector
\* toggles and its rule set from one single configuration, also when
\* update_config runs while the call is suspended at an await
C17_SingleConfiguration ==
    \A c \in Callers : Returned(c) => \E cfg \in SampleConfigs : RanUnder(c, cfg)

\* the rule engine holds the rule set of the configuration get_config returns
C18_InSync == rules = get_config.rules

\* update_config(new) makes new the configuration get_config returns and
\* its rules the rule set of the engine, in one step; and every step of a
\* call reads the toggles and the rule set of the configuration of that
\* moment
C18_Step ==
    /\ \A new \in SampleConfigs : update_config(new) => (get_config' = new /\ rules' = new.rules)
    /\ config' # config => calls' = calls
    /\ \A c \in Callers :
           (calls'[c] # calls[c] /\ calls'[c].pc \in {AwaitOf(k) : k \in 1..RuleStage}) =>
               LET to == Position(calls'[c])
               IN  /\ \A k \in (Position(calls[c]) + 1)..5 :
                          /\ k < to => ~Toggles(get_config)[k]
                          /\ k = to => Toggles(get_config)[k]
                   /\ to = RuleStage =>
                          /\ calls'[c].rules_read = get_config.rules
                          /\ calls'[c].pending = check_rules(get_config.rules, calls[c].request)

\* C18: after update_config(c), get_config returns c and the calls started
\* afterwards, until the next update_config, use the toggles and the rules
\* of c and no rule of the configuration before
C18_ConfigVisible == []C18_InSync /\ [][C18_Step]_vars

\* a response of a call that ran under the configuration in force, whose
\* rules differ in order from those of the other configurations: the flag of
\* rule b comes before the flag of rule a
C18_Witness ==
    \E c \in Callers :
        /\ Returned(c)
        /\ RanUnder(c, get_config)
        /\ get_config.rules = <<RuleB, RuleA>>
        /\ Len(CustomFlags(c)) >= 2
        /\ CustomFlags(c)[1].type = "custom_rule_b"
        /\ CustomFlags(c)[Len(CustomFlags(c))].type = "custom_rule_a"

\* the flags of the detectors from the k-th on that cfg enables, each run
\* on the content by itself
RECURSIVE DetectorsAlone(_, _, _)
DetectorsAlone(cfg, content, k) ==
    IF k > 5 THEN <<>>
    ELSE (IF Toggles(cfg)[k] THEN DetectorFlags(k, content) ELSE <<>>) \o DetectorsAlone(cfg, content, k + 1)

\* the flags of a call that runs alone under the configuration cfg
FlagsAlone(request, cfg) ==
    DetectorsAlone(cfg, request.content, 1) \o check_rules(cfg.rules, request) \o check_platform_rules(request)

\* a response without its processing_time_ms
Verdict(r) == [is_flagged |-> r.is_flagged, flags |-> r.flags, overall_severity |-> r.overall_severity,
               confidence_score |-> r.confidence_score, safe_to_post |-> r.safe_to_post,
               recommendations |-> r.recommendations]

IsPrefix(s, t) == Len(s) <= Len(t) /\ s = SubSeq(t, 1, Len(s))

\* C19: of two calls that run concurrently under a configuration that is
\* not replaced, each returns the flags, overall_severity, confidence_score,
\* safe_to_post and recommendations it returns when run alone, and collects
\* at every await only flags of its own request
C19_Independent ==
    \A c \in TwoCallers :
        /\ Returned(c) =>
               Verdict(ResponseOf(c)) = Verdict(Response(FlagsAlone(calls[c].request, config), calls[c].request, 0))
        /\ IsPrefix(calls[c].flags \o calls[c].pending, FlagsAlone(calls[c].request, config))

\* one call has returned its flags while the other, for another content, is
\* suspended at an await with a flag collected and one pending
C19_Witness ==
    /\ Returned("c1")
    /\ ResponseOf("c1").flags # <<>>
    /\ calls["c2"].pc = "await_toxicity"
    /\ calls["c2"].flags # <<>>
    /\ calls["c2"].pending # <<>>
    /\ calls["c2"].request.content # calls["c1"].request.content
    /\ \A i \in 1..Len(calls["c2"].flags) : \A j \in 1..Len(ResponseOf("c1").flags) :
           calls["c2"].flags[i] # ResponseOf("c1").flags[j]

Finished(c) == Returned(c) \/ Threw(c)

SameInput(r1, r2) ==
    r1.content = r2.content /\ r1.platform = r2.platform /\ r1.content_type = r2.content_type

\* C20: two calls with equal content, platform and content_type under the
\* same configuration have the same outcome, the same error or responses
\* equal in every field but processing_time_ms, whatever their user_id and
\* metadata and whatever calls came before
C20_Deterministic ==
    \A c1, c2 \in TwoCallers :
        (Finished(c1) /\ Finished(c2) /\ SameInput(calls[c1].request, calls[c2].request)) =>
            /\ calls[c1].pc = calls[c2].pc
            /\ ErrorOf(c1) = ErrorOf(c2)
            /\ Returned(c1) => Verdict(ResponseOf(c1)) = Verdict(ResponseOf(c2))

\* two responses with the same flags for the same content from requests
\* with different user_id and metadata, with different processing times
C20_Witness ==
    /\ Returned("c1") /\ Returned("c2")
    /\ SameInput(calls["c1"].request, calls["c2"].request)
    /\ calls["c1"].request.user_id # calls["c2"].request.user_id
    /\ calls["c1"].request.metadata # calls["c2"].request.metadata
    /\ ResponseOf("c1").processing_time_ms # ResponseOf("c2").processing_time_ms
    /\ Len(ResponseOf("c1").flags) >= 2
    /\ Verdict(ResponseOf("c1")) = Verdict(ResponseOf("c2"))

Checked(c, k) == calls[c].pc = "checked" /\ calls[c].invoked = <<Stages[k]>>

ContentOf(c) == calls[c].request.content

ResultOf(c) == calls[c].response[1]

RECURSIVE SumSeq(_)
SumSeq(s) == IF Len(s) = 0 THEN 0 ELSE Head(s) + SumSeq(Tail(s))

\* the sum S of the spam signals of a content, in hundredths
SpamSignals(content) ==
    SumSeq([i \in 1..Len(spam_patterns) |->
               IF includes(toLowerCase(content), spam_patterns[i].pattern) THEN spam_patterns[i].confidence ELSE 0])
    + (IF count_urls(content) > 2 THEN 50 * count_urls(content) ELSE 0)
    + (IF 2 * CountUpper(content) > Len(content) /\ Len(content) > 20 THEN 40 ELSE 0)
    + (IF CountChar(content, "!") > 2 \/ CountChar(content, "?") > 3 THEN 30 ELSE 0)
    + 20 * Cardinality(RepetitiveWords(content))
    + (IF has_suspicious_patterns(content) THEN 60 ELSE 0)

\* C22 (as the spec states it): SpamDetector.check returns spam_score =
\* min(1.0, S) for the sum S of the signals of the content; is_spam holds iff
\* spam_score > 0.6, a score of exactly 0.6 being no spam; the spam flag is
\* pushed iff is_spam and is medium with confidence spam_score
C22_SpamScore ==
    \A c \in Callers : Checked(c, 4) =>
        /\ ResultOf(c).spam_score = Min(100, SpamSignals(ContentOf(c)))
        /\ ResultOf(c).is_spam <=> ResultOf(c).spam_score > 60
        /\ calls[c].pending = IF ResultOf(c).is_spam
                              THEN <<[type |-> "spam", severity |-> "medium",
                                      confidence |-> Hundredths(ResultOf(c).spam_score)]>>
                              ELSE <<>>

RECURSIVE MaxOf(_)
MaxOf(S) == IF S = {} THEN 0 ELSE LET x == CHOOSE y \in S : TRUE IN Max(x, MaxOf(S \ {x}))

\* the confidences of the general toxicity signals of a content: its toxic
\* phrases, the caps floor and the punctuation floor
GeneralSignals(content) ==
    {toxic_patterns[i].confidence : i \in {j \in 1..Len(toxic_patterns) :
                                              includes(toLowerCase(content), toxic_patterns[j].pattern)}}
    \cup (IF 10 * CountUpper(content) > 7 * Len(content) /\ Len(content) > 10 THEN {30} ELSE {})
    \cup (IF CountChar(content, "!") > 3 \/ CountChar(content, "?") > 5 THEN {20} ELSE {})

\* C23: ToxicityDetector.check returns in toxicity_score the maximum of the
\* four category scores, each the maximum confidence of the matching signals
\* of the category and 0 when none matches; is_toxic holds iff the score is
\* above 0.5, so a strongest signal of exactly 0.5, the caps floor or the
\* punctuation floor is not flagged; the flag is high with the score as
\* its confidence
C23_ToxicityScore ==
    \A c \in Callers : Checked(c, 3) =>
        LET r == ResultOf(c)
            lc == toLowerCase(ContentOf(c))
        IN  /\ r.toxicity_score = MaxOf({r.categories.general_toxicity, r.categories.hate_speech,
                                         r.categories.violence, r.categories.sexual_content})
            /\ r.categories.general_toxicity = MaxOf(GeneralSignals(ContentOf(c)))
            /\ r.categories.hate_speech = IF HateSpeechMatches(lc) THEN 80 ELSE 0
            /\ r.categories.violence = IF \E p \in violence_patterns : includes(lc, p) THEN 90 ELSE 0
            /\ r.categories.sexual_content = IF \E p \in sexual_content_patterns : includes(lc, p) THEN 70 ELSE 0
            /\ r.is_toxic <=> r.toxicity_score > 50
            /\ calls[c].pending = IF r.is_toxic
                                  THEN <<[type |-> "toxicity", severity |-> "high",
                                          confidence |-> Hundredths(r.toxicity_score)]>>
                                  ELSE <<>>

\* the check of a content whose signals are a phrase of 0.5, the caps floor
\* and the punctuation floor: score 0.5, not toxic, no flag
C23_Witness ==
    \E c \in Callers :
        /\ Checked(c, 3)
        /\ GeneralSignals(ContentOf(c)) = {50, 30, 20}
        /\ ResultOf(c).toxicity_score = 50
        /\ ~ResultOf(c).is_toxic
        /\ calls[c].pending = <<>>

\* the fixed confidence of the signal behind an entry of info_types
SignalConfidence == [email |-> 90, phone |-> 80, ssn |-> 95, credit_card |-> 90, address |-> 70, name |-> 60,
                     personal_keyword |-> 50]

NoDuplicates(xs) == \A i, j \in 1..Len(xs) : xs[i] = xs[j] => i = j

Elements(xs) == {xs[i] : i \in 1..Len(xs)}

\* C24: PersonalInfoDetector.check returns as confidence the maximum of the
\* fixed confidences of the signals that fire and 0 when none fires;
\* has_personal_info holds iff some item was detected; detected_info and
\* info_types have no duplicates; and a content with an email and a phone
\* number gets a personal_info flag with confidence at least 0.9
C24_PersonalInfo ==
    \A c \in Callers : Checked(c, 5) =>
        LET r == ResultOf(c)
        IN  /\ r.confidence = MaxOf({SignalConfidence[t] : t \in Elements(r.info_types)})
            /\ r.has_personal_info <=> Len(r.detected_info) > 0
            /\ NoDuplicates(r.detected_info)
            /\ NoDuplicates(r.info_types)
            /\ calls[c].pending = IF r.has_personal_info
                                  THEN <<[type |-> "personal_info", severity |-> "high",
                                          confidence |-> Hundredths(r.confidence)]>>
                                  ELSE <<>>
            /\ {"email", "phone"} \subseteq Elements(r.info_types) =>
                   /\ Len(calls[c].pending) = 1
                   /\ FracLeq(Hundredths(90), calls[c].pending[1].confidence)

\* the check of a content with an email and a phone number: both items are
\* detected and the flag has the confidence of the email, not the sum
C24_Witness ==
    \E c \in Callers :
        /\ Checked(c, 5)
        /\ ResultOf(c).info_types = <<"email", "phone">>
        /\ Len(ResultOf(c).detected_info) = 2
        /\ ResultOf(c).confidence = 90
        /\ Len(calls[c].pending) = 1

\* the words of the canonical reporting set that occur in the text, whatever
\* their case
ReportedWords(content) == SelectSeq(common_profane, LAMBDA word : includes(toLowerCase(content), word))

\* is_profane iff cleaning the text against the blocklist lexicon changes
\* it, and a medium profanity flag of confidence 0.9 iff is_profane
C25_Flag ==
    \A c \in Callers : Checked(c, 1) =>
        /\ ResultOf(c).is_profane <=> CleanChanges(ContentOf(c))
        /\ Len(calls[c].pending) = (IF ResultOf(c).is_profane THEN 1 ELSE 0)
        /\ \A i \in 1..Len(calls[c].pending) :
               /\ calls[c].pending[i].type = "profanity"
               /\ calls[c].pending[i].severity = "medium"
               /\ calls[c].pending[i].confidence = Hundredths(90)

\* C25 (as the spec states it): for every text, profane_words is the subset
\* of the canonical reporting set that occurs in the text
C25_Original ==
    /\ C25_Flag
    /\ \A c \in Callers : Checked(c, 1) => ResultOf(c).profane_words = ReportedWords(ContentOf(c))

\* C25: ProfanityDetector.check returns is_profane iff cleaning the text
\* changes it; profane_words is the subset of the canonical reporting set
\* that occurs in the text when is_profane holds and is empty when it does
\* not; the profanity flag is medium with confidence 0.9 and is pushed iff
\* is_profane
C25_Profanity ==
    /\ C25_Flag
    /\ \A c \in Callers : Checked(c, 1) =>
           ResultOf(c).profane_words = IF ResultOf(c).is_profane THEN ReportedWords(ContentOf(c)) ELSE <<>>

\* the check of a text that is not profane and contains words of the
\* canonical set: no word is reported and no flag is pushed
C25_Witness ==
    \E c \in Callers :
        /\ Checked(c, 1)
        /\ ~ResultOf(c).is_profane
        /\ Len(ReportedWords(ContentOf(c))) = 2
        /\ ResultOf(c).profane_words = <<>>
        /\ calls[c].pending = <<>>

LastOp(c, op) == calls[c].op = op

\* the rules at the positions of the set, in the order of the rule set
RulesAt(S) == LET positions == SortedPositions(S)
              IN  SubSeq([k \in 1..Len(positions) |-> rules[positions[k]]], 1, Len(positions))

\* C26: add_rule appends the rule at the end; remove_rule(id) returns true
\* iff a rule with the id was present, afterwards get_rule(id) is undefined
\* and the other rules are left in their order; enable_rule and disable_rule
\* return false and change nothing when no rule has the id; get_enabled_rules
\* and get_rules_for_platform return exactly the enabled rules and the rules
\* of the platform, in rule order
C26_Management ==
    /\ \A c \in Callers :
          LET call == calls[c]
          IN  /\ LastOp(c, "add_rule") => rules = call.before \o <<call.arg>>
              /\ LastOp(c, "remove_rule") =>
                    /\ call.result[1] <=> \E i \in 1..Len(call.before) : call.before[i].id = call.arg
                    /\ get_rule(call.arg) = <<>>
                    /\ \E kept \in SUBSET (1..Len(call.before)) :
                          /\ kept = {i \in 1..Len(call.before) : call.before[i].id # call.arg}
                          /\ Len(rules) = Cardinality(kept)
                          /\ \A k \in 1..Len(rules) : rules[k] = call.before[SortedPositions(kept)[k]]
              /\ (LastOp(c, "enable_rule") \/ LastOp(c, "disable_rule")) =>
                    ((\A i \in 1..Len(call.before) : call.before[i].id # call.arg) =>
                         (call.result[1] = FALSE /\ rules = call.before))
    /\ get_enabled_rules = RulesAt({i \in 1..Len(rules) : rules[i].enabled})
    /\ \A platform \in PlatformType :
          get_rules_for_platform(platform) = RulesAt({i \in 1..Len(rules) : platform \in rules[i].platforms})

\* remove_rule has returned true for an id that two rules had, with a rule
\* before them and none of the id left
C26_Witness ==
    \E c \in Callers :
        /\ LastOp(c, "remove_rule")
        /\ calls[c].result = <<TRUE>>
        /\ Len(calls[c].before) = 3
        /\ Len(rules) = 1
        /\ rules[1] = calls[c].before[1]
        /\ Len(get_enabled_rules) = 0

\* the flags of check_rules for the request that carry the id
FlagsOfRule(rule_id, request) ==
    SelectSeq(check_rules(rules, request), LAMBDA flag : flag.type = "custom_rule_" \o rule_id)

\* C27 (as the spec states it): after disable_rule(id) has returned true,
\* check_rules produces no flag of type custom_rule_<id> for any request
\* until enable_rule(id), add_rule or update_rules is called, also when
\* several rules share the id
C27_DisabledStaysOff ==
    \A c \in Callers : \A rule_id \in calls[c].disabled :
        /\ \A request \in RuleRequests : FlagsOfRule(rule_id, request) = <<>>
        /\ LastOp(c, "check_rules") =>
               \A i \in 1..Len(calls[c].result) : calls[c].result[i].type # "custom_rule_" \o rule_id

\* a step of a call of moderate_content leaves the configuration and the
\* rules of the rule engine as they are, and a step that changes one of them
\* is an update_config
C28_Step ==
    /\ (\E c \in Callers : calls'[c] # calls[c]) => (get_config' = get_config /\ rules' = rules)
    /\ (get_config' # get_config \/ rules' # rules) => \E new_config \in SampleConfigs : update_config(new_config)

\* C28: moderate_content never changes the state of the engine: after a
\* call, whether it returned a response or raised a validation error,
\* get_config returns the configuration it returned before and the rule
\* engine holds the same rules in the same order with the same enabled
\* flags; only update_config changes what later requests see
C28_Frame == [][C28_Step]_vars

\* a call has returned flags of two rules under a rule set that holds a
\* disabled rule, and the engine holds the rule set the call read and the
\* configuration with these rules
C28_Witness ==
    \E c \in Callers :
        /\ Returned(c)
        /\ Len(CustomFlags(c)) >= 2
        /\ calls[c].rules_read = <<RuleA, RuleB, RuleC>>
        /\ rules = calls[c].rules_read
        /\ get_config.rules = rules
        /\ ~rules[3].enabled

\* the personal information detector finds a word of personal_keywords in
\* the content
KeywordFound(content) ==
    \E i \in 1..Len(personal_keywords) : includes(toLowerCase(content), personal_keywords[i])

\* the signals of the content other than keywords
OtherTypes(content) == Elements(PersonalInfoDetector_check(content).info_types) \ {"personal_keyword"}

\* C29: a content whose only personal information signal is a keyword gets
\* has_personal_info = false, confidence 0.5 and info_types with
\* personal_keyword, and no personal_info flag; every personal_info flag has
\* confidence at least 0.6; and a keyword does not make a single
\* capitalized name count
C29_KeywordOnly ==
    \A c \in Callers : Checked(c, 5) =>
        LET r == ResultOf(c)
        IN  /\ (KeywordFound(ContentOf(c)) /\ OtherTypes(ContentOf(c)) = {}) =>
                   /\ ~r.has_personal_info
                   /\ r.confidence = 50
                   /\ r.info_types = <<"personal_keyword">>
                   /\ calls[c].pending = <<>>
            /\ \A i \in 1..Len(calls[c].pending) : FracLeq(Hundredths(60), calls[c].pending[i].confidence)
            /\ (Len(NameMatches(ContentOf(c), 2)) = 1 /\ Len(NameMatches(ContentOf(c), 3)) = 0
                /\ Elements(r.info_types) \subseteq {"name", "personal_keyword"}) =>
                   "name" \notin Elements(r.info_types)

\* the check of a content with a keyword and one capitalized name and no
\* other signal: the name is not counted and no flag is pushed
C29_Witness ==
    \E c \in Callers :
        /\ Checked(c, 5)
        /\ KeywordFound(ContentOf(c))
        /\ Len(NameMatches(ContentOf(c), 2)) = 1
        /\ ResultOf(c).info_types = <<"personal_keyword">>
        /\ ResultOf(c).confidence = 50
        /\ ~ResultOf(c).has_personal_info
        /\ calls[c].pending = <<>>
====
